---- MODULE Spec2Model ----
(***************************************************************************)
(* The Schema Conversion Engine of spectopus: the Zod converter            *)
(* (src/src/adapters/zod.ts) and the Joi converter                         *)
(* (src/src/adapters/joi.ts), both folding a validation schema onto an     *)
(* OpenAPI 3.1 schema node by depth-bounded structural recursion.          *)
(*                                                                         *)
(* Encoding of JavaScript values.  A JS object is a TLA+ record and an     *)
(* absent (undefined) property is an absent field; {} is the empty         *)
(* function <<>>.  A JS array is a sequence.  A property that holds values *)
(* of more than one JS type is kept apart by a one-field record:           *)
(*   [str |-> s]  a string      [num |-> n]  a number                      *)
(*   [bool |-> b] a boolean     [null |-> TRUE]  null                      *)
(*   [arr |-> q]  an array (only where the property may also hold a        *)
(*                non-array, as `type` does)                               *)
(* Schema nodes never have a field of these five names, so a node and a    *)
(* wrapped scalar are always told apart (`items: false` against            *)
(* `items: {...}`).  Properties that only ever hold one JS type            *)
(* (description, format, pattern: strings; minLength...: numbers;          *)
(* required, enum, anyOf...: arrays) are stored bare.                      *)
(***************************************************************************)
EXTENDS Integers, Sequences, FiniteSets, TLC

VARIABLES
  call,   \* the conversion call made last: [api, schema, options]
  post,   \* the caller's schema and options objects as that call left them
  out,    \* the node that call returned
  env,    \* what an environment-reading default function returns when called now
  seen,   \* an earlier call kept for comparison: [call, out], or <<>>
  builders, \* the SpecBuilder objects created so far, in creation order
  ops,    \* the caller's raw OperationObjects, by identity
  before  \* the document the receiver of the last fluent call built before it

vars == <<call, post, out, env, seen, builders, ops, before>>

----------------------------------------------------------------------------
(* JavaScript values and object helpers                                    *)

JStr(s) == [str |-> s]
JNum(n) == [num |-> n]
JBool(b) == [bool |-> b]
JNull == [null |-> TRUE]

EmptyNode == <<>>

Has(obj, f) == f \in DOMAIN obj

\* typeof v === 'string'
IsJSString(v) == Has(v, "str")

\* Array.isArray(v), for a property that may hold a non-array
IsJSArray(v) == Has(v, "arr")

\* { ...a, ...b }: the properties of b laid over those of a
Spread(a, b) == b @@ a

\* obj.f = v
Assign(obj, f, v) == (f :> v) @@ obj

\* array.includes(v)
Includes(array, v) == \E i \in DOMAIN array : array[i] = v

\* array.filter(keep), keep given as the set of indices kept
RECURSIVE FilterIdx(_, _, _)
FilterIdx(array, keepIdx, i) ==
  IF i > Len(array) THEN <<>>
  ELSE (IF i \in keepIdx THEN <<array[i]>> ELSE <<>>) \o FilterIdx(array, keepIdx, i + 1)

\* the concatenation of a sequence of strings
RECURSIVE Join(_)
Join(chars) == IF chars = <<>> THEN "" ELSE Head(chars) \o Join(Tail(chars))

----------------------------------------------------------------------------
(* Conversion options (zod.ts:30-48, joi.ts:40-58)                         *)

DefaultMaxDepth == 20

\* A variant of the option defaults in which maxDepth, when the caller gives
\* none, falls back to the maxDepth of the previous call (a module-level
\* defaults object written by each call)
ResolveOptions_sticky(options) ==
  [ includeDescriptions |->
      IF Has(options, "includeDescriptions") THEN options.includeDescriptions ELSE TRUE,
    includeDefaults |->
      IF Has(options, "includeDefaults") THEN options.includeDefaults ELSE TRUE,
    maxDepth |->
      IF Has(options, "maxDepth") THEN options.maxDepth
      ELSE IF call.api # "none" /\ Has(call.options, "maxDepth")
           THEN call.options.maxDepth
           ELSE DefaultMaxDepth ]

\* options.x ?? fallback, for the three options
ResolveOptions(options) ==
  [ includeDescriptions |->
      IF Has(options, "includeDescriptions") THEN options.includeDescriptions ELSE TRUE,
    includeDefaults |->
      IF Has(options, "includeDefaults") THEN options.includeDefaults ELSE TRUE,
    maxDepth |->
      IF Has(options, "maxDepth") THEN options.maxDepth ELSE DefaultMaxDepth ]

\* A variant of the guard that lets one more level through (depth > maxDepth + 1)
DepthExceeded_offByOne(opts, depth) == depth > opts.maxDepth + 1

\* The depth guard both converters start with: depth > opts.maxDepth
DepthExceeded(opts, depth) == depth > opts.maxDepth

----------------------------------------------------------------------------
(* Object references.  A nested schema is held by reference.  A reference  *)
(* is modelled by the schema it points to, written in place, except a      *)
(* reference that closes a cycle of the object graph: that one is          *)
(* [link |-> name], pointing to the cell `name` of a table of              *)
(* self-referential schemas.                                               *)

\* The self-referential Zod schemas: each wrapper whose inner schema is itself.
ZodCycleTags == {"ZodOptional", "ZodNullable", "ZodArray", "ZodCatch", "ZodObject"}

ZodCell(tag) ==
  CASE tag = "ZodArray" -> [typeName |-> "ZodArray", type |-> [link |-> tag]]
    [] tag = "ZodObject" ->
         [typeName |-> "ZodObject", unknownKeys |-> "strip",
          shape |-> << [key |-> "self", schema |-> [link |-> tag]] >>,
          catchall |-> [typeName |-> "ZodNever"]]
    [] OTHER -> [typeName |-> tag, innerType |-> [link |-> tag]]

\* Following a reference to the schema object it points to
ZodDeref(ref) == IF Has(ref, "link") THEN ZodCell(ref.link) ELSE ref

----------------------------------------------------------------------------
(* Dialect A: the Zod converter (src/src/adapters/zod.ts).  A schema is    *)
(* the record of its _def: typeName, description and the fields of its     *)
(* kind.  _def.defaultValue is a function: z.default(v) stores () => v,     *)
(* modelled by the value v itself, and z.default(fn) stores the caller's   *)
(* fn, modelled by [impure |-> TRUE] when fn reads its environment (a      *)
(* clock, a counter): calling it returns the number env.                   *)
(* A string a check carries (startsWith ...) is [chars |-> its characters].*)

RegexSpecials == {".", "*", "+", "?", "^", "$", "{", "}", "(", ")", "|", "[", "]", "\\"}

\* str.replace(/[.*+?^${}()|[\]\\]/g, '\\$&')
EscapeRegex(str) ==
  Join([i \in DOMAIN str.chars |->
          IF str.chars[i] \in RegexSpecials THEN "\\" \o str.chars[i] ELSE str.chars[i]])

\* one iteration of the loop over a ZodString's checks
ZodStringCheck(result, check) ==
  CASE check.kind = "min" -> Assign(result, "minLength", check.value)
    [] check.kind = "max" -> Assign(result, "maxLength", check.value)
    [] check.kind = "length" ->
         Assign(Assign(result, "minLength", check.value), "maxLength", check.value)
    [] check.kind = "regex" -> Assign(result, "pattern", check.regex.source)
    [] check.kind = "email" -> Assign(result, "format", "email")
    [] check.kind = "url" -> Assign(result, "format", "uri")
    [] check.kind = "uuid" -> Assign(result, "format", "uuid")
    [] check.kind = "datetime" -> Assign(result, "format", "date-time")
    [] check.kind = "date" -> Assign(result, "format", "date")
    [] check.kind = "time" -> Assign(result, "format", "time")
    [] check.kind = "duration" -> Assign(result, "format", "duration")
    [] check.kind = "base64" -> Assign(result, "contentEncoding", "base64")
    [] check.kind = "startsWith" ->
         Assign(result, "pattern", "^" \o EscapeRegex(check.value))
    [] check.kind = "endsWith" ->
         Assign(result, "pattern", EscapeRegex(check.value) \o "$")
    [] check.kind = "includes" -> Assign(result, "pattern", EscapeRegex(check.value))
    [] OTHER -> result

RECURSIVE ZodStringChecks(_, _)
ZodStringChecks(result, checks) ==
  IF checks = <<>> THEN result
  ELSE ZodStringChecks(ZodStringCheck(result, Head(checks)), Tail(checks))

ZodChecksOf(schema) == IF Has(schema, "checks") THEN schema.checks ELSE <<>>

ConvertZodString(schema, opts) ==
  ZodStringChecks([type |-> JStr("string")], ZodChecksOf(schema))

\* one iteration of the loop over a ZodNumber's checks (isInteger apart)
ZodNumberCheck(result, check) ==
  CASE check.kind = "min" ->
         IF Has(check, "inclusive") /\ check.inclusive
         THEN Assign(result, "minimum", check.value)
         ELSE Assign(result, "exclusiveMinimum", check.value)
    [] check.kind = "max" ->
         IF Has(check, "inclusive") /\ check.inclusive
         THEN Assign(result, "maximum", check.value)
         ELSE Assign(result, "exclusiveMaximum", check.value)
    [] check.kind = "multipleOf" -> Assign(result, "multipleOf", check.value)
    [] OTHER -> result

RECURSIVE ZodNumberChecks(_, _)
ZodNumberChecks(result, checks) ==
  IF checks = <<>> THEN result
  ELSE ZodNumberChecks(ZodNumberCheck(result, Head(checks)), Tail(checks))

\* A variant of convertZodNumber that looks for 'int' in the first check only
ConvertZodNumber_intFirstOnly(schema) ==
  LET checks == ZodChecksOf(schema)
      isInteger == checks # <<>> /\ checks[1].kind = "int"
      result == ZodNumberChecks(EmptyNode, checks)
  IN Assign(result, "type", JStr(IF isInteger THEN "integer" ELSE "number"))

ConvertZodNumber(schema) ==
  LET checks == ZodChecksOf(schema)
      isInteger == \E i \in DOMAIN checks : checks[i].kind = "int"
      result == ZodNumberChecks(EmptyNode, checks)
  IN Assign(result, "type", JStr(IF isInteger THEN "integer" ELSE "number"))

ZodTypeNameOf(schema) == IF Has(schema, "typeName") THEN schema.typeName ELSE ""

\* A variant of isZodOptional that knows ZodOptional only
IsZodOptional_optionalOnly(schema) == ZodTypeNameOf(schema) = "ZodOptional"

IsZodOptional(schema) == ZodTypeNameOf(schema) \in {"ZodOptional", "ZodDefault"}

UnwrapZodOptional(schema) ==
  IF ZodTypeNameOf(schema) \in {"ZodOptional", "ZodDefault"}
  THEN ZodDeref(schema.innerType)
  ELSE schema

\* the values of a native enum kept for the `enum` list
ZodNativeEnumValues(schema) ==
  LET all == IF Has(schema, "values") THEN schema.values ELSE <<>>
      stringValues == FilterIdx(all, {i \in DOMAIN all : Has(all[i], "str")}, 1)
      numValues == FilterIdx(all, {i \in DOMAIN all : Has(all[i], "num")}, 1)
  IN IF Len(stringValues) > 0 THEN stringValues ELSE numValues

\* A variant of the step below that copies the description whatever the options say
ZodBaseResult_alwaysDescribes(schema, opts) ==
  IF Has(schema, "description") /\ schema.description # ""
  THEN [description |-> schema.description]
  ELSE EmptyNode

\* the description collected before the dispatch on the type tag
ZodBaseResult(schema, opts) ==
  IF opts.includeDescriptions /\ Has(schema, "description") /\ schema.description # ""
  THEN [description |-> schema.description]
  ELSE EmptyNode

\* schema._def.defaultValue(): the call of the default function
ZodCallDefault(schema) ==
  IF Has(schema.defaultValue, "impure") THEN JNum(env) ELSE schema.defaultValue

\* the ZodUnion / ZodDiscriminatedUnion arm, given the conversions of the options
ZodUnionResult(result, branches) == Assign(result, "anyOf", branches)

\* A variant of the ZodIntersection arm that emits the two branches as alternatives
ZodIntersectionResult_asAnyOf(result, left, right) ==
  Assign(result, "anyOf", <<left, right>>)

\* the ZodIntersection arm, given the conversions of the two sides
ZodIntersectionResult(result, left, right) == Assign(result, "allOf", <<left, right>>)

\* A variant of the ZodNullable arm that always wraps the inner node in anyOf
ZodNullableResult_alwaysAnyOf(result, inner) ==
  Assign(result, "anyOf", <<inner, [type |-> JStr("null")]>>)

\* the ZodNullable arm, given the conversion of the inner schema
ZodNullableResult(result, inner) ==
  IF Has(inner, "type") /\ IsJSString(inner.type)
  THEN Assign(Spread(result, inner), "type", [arr |-> <<inner.type.str, "null">>])
  ELSE Assign(result, "anyOf", <<inner, [type |-> JStr("null")]>>)

\* the ZodDefault arm, given the conversion of the inner schema
ZodDefaultResult(schema, opts, result, inner) ==
  LET o == Spread(result, inner)
  IN IF opts.includeDefaults /\ Has(schema, "defaultValue")
     THEN Assign(o, "default", ZodCallDefault(schema))
     ELSE o

RECURSIVE ConvertZodType(_, _, _)
RECURSIVE ConvertZodObject(_, _, _)
RECURSIVE ConvertZodShape(_, _, _)

\* A variant of the loop body in which the wrapper's default replaces the
\* default of the inner conversion
ConvertZodField_wrapperWins(fieldSchema, opts, depth) ==
  LET converted == ConvertZodType(UnwrapZodOptional(fieldSchema), opts, depth + 1)
  IN IF /\ opts.includeDefaults
        /\ ZodTypeNameOf(fieldSchema) = "ZodDefault"
        /\ Has(fieldSchema, "defaultValue")
     THEN Assign(converted, "default", ZodCallDefault(fieldSchema))
     ELSE converted

\* A variant of the loop body that converts the unwrapped field schema at the
\* depth of the object itself
ConvertZodField_sameDepth(fieldSchema, opts, depth) ==
  LET converted == ConvertZodType(UnwrapZodOptional(fieldSchema), opts, depth)
  IN IF /\ opts.includeDefaults
        /\ ZodTypeNameOf(fieldSchema) = "ZodDefault"
        /\ ~Has(converted, "default")
        /\ Has(fieldSchema, "defaultValue")
     THEN Assign(converted, "default", ZodCallDefault(fieldSchema))
     ELSE converted

\* the property node of one field of an object: the loop body of convertZodObject
ConvertZodField(fieldSchema, opts, depth) ==
  LET converted == ConvertZodType(UnwrapZodOptional(fieldSchema), opts, depth + 1)
  IN IF /\ opts.includeDefaults
        /\ ZodTypeNameOf(fieldSchema) = "ZodDefault"
        /\ ~Has(converted, "default")
        /\ Has(fieldSchema, "defaultValue")
     THEN Assign(converted, "default", ZodCallDefault(fieldSchema))
     ELSE converted

\* the loop over Object.entries(shape): the properties and the required list
ConvertZodShape(shape, opts, depth) ==
  IF shape = <<>> THEN [properties |-> <<>>, required |-> <<>>]
  ELSE LET n == Len(shape)
           front == ConvertZodShape(SubSeq(shape, 1, n - 1), opts, depth)
           field == ZodDeref(shape[n].schema)
       IN [ properties |->
              Assign(front.properties, shape[n].key, ConvertZodField(field, opts, depth)),
            required |->
              IF IsZodOptional(field) THEN front.required
              ELSE Append(front.required, shape[n].key) ]

\* A variant of convertZodObject that writes the required list even when it
\* is empty
ConvertZodObject_alwaysRequired(schema, opts, depth) ==
  LET fields == ConvertZodShape(IF Has(schema, "shape") THEN schema.shape ELSE <<>>,
                                opts, depth)
      r0 == [type |-> JStr("object")]
      r1 == IF DOMAIN fields.properties # {}
            THEN Assign(r0, "properties", fields.properties) ELSE r0
      r2 == Assign(r1, "required", fields.required)
      unknownKeys == IF Has(schema, "unknownKeys") THEN schema.unknownKeys ELSE ""
      r3 == CASE unknownKeys = "strict" -> Assign(r2, "additionalProperties", JBool(FALSE))
              [] unknownKeys = "passthrough" -> Assign(r2, "additionalProperties", JBool(TRUE))
              [] OTHER -> r2
  IN IF Has(schema, "catchall") /\ ZodTypeNameOf(ZodDeref(schema.catchall)) # "ZodNever"
     THEN Assign(r3, "additionalProperties",
                 ConvertZodType(ZodDeref(schema.catchall), opts, depth + 1))
     ELSE r3

\* A variant of convertZodObject in which the unknown-keys setting is applied
\* after the catch-all
ConvertZodObject_unknownKeysLast(schema, opts, depth) ==
  LET fields == ConvertZodShape(IF Has(schema, "shape") THEN schema.shape ELSE <<>>,
                                opts, depth)
      r0 == [type |-> JStr("object")]
      r1 == IF DOMAIN fields.properties # {}
            THEN Assign(r0, "properties", fields.properties) ELSE r0
      r2 == IF Len(fields.required) > 0
            THEN Assign(r1, "required", fields.required) ELSE r1
      unknownKeys == IF Has(schema, "unknownKeys") THEN schema.unknownKeys ELSE ""
      r3 == IF Has(schema, "catchall") /\ ZodTypeNameOf(ZodDeref(schema.catchall)) # "ZodNever"
            THEN Assign(r2, "additionalProperties",
                        ConvertZodType(ZodDeref(schema.catchall), opts, depth + 1))
            ELSE r2
  IN CASE unknownKeys = "strict" -> Assign(r3, "additionalProperties", JBool(FALSE))
       [] unknownKeys = "passthrough" -> Assign(r3, "additionalProperties", JBool(TRUE))
       [] OTHER -> r3

ConvertZodObject(schema, opts, depth) ==
  LET fields == ConvertZodShape(IF Has(schema, "shape") THEN schema.shape ELSE <<>>,
                                opts, depth)
      r0 == [type |-> JStr("object")]
      r1 == IF DOMAIN fields.properties # {}
            THEN Assign(r0, "properties", fields.properties) ELSE r0
      r2 == IF Len(fields.required) > 0
            THEN Assign(r1, "required", fields.required) ELSE r1
      unknownKeys == IF Has(schema, "unknownKeys") THEN schema.unknownKeys ELSE ""
      r3 == CASE unknownKeys = "strict" -> Assign(r2, "additionalProperties", JBool(FALSE))
              [] unknownKeys = "passthrough" -> Assign(r2, "additionalProperties", JBool(TRUE))
              [] OTHER -> r2
  IN IF Has(schema, "catchall") /\ ZodTypeNameOf(ZodDeref(schema.catchall)) # "ZodNever"
     THEN Assign(r3, "additionalProperties",
                 ConvertZodType(ZodDeref(schema.catchall), opts, depth + 1))
     ELSE r3

\* A variant of convertZodArray that leaves `items` out when the element converts to {}
ConvertZodArray_omitEmptyItems(schema, opts, depth) ==
  LET r0 == [type |-> JStr("array")]
      items == IF Has(schema, "type")
               THEN ConvertZodType(ZodDeref(schema.type), opts, depth + 1) ELSE EmptyNode
      r1 == IF Has(schema, "type") /\ DOMAIN items # {}
            THEN Assign(r0, "items", items) ELSE r0
  IN IF Has(schema, "exactLength")
     THEN Assign(Assign(r1, "minItems", schema.exactLength.value),
                 "maxItems", schema.exactLength.value)
     ELSE LET r2 == IF Has(schema, "minLength")
                    THEN Assign(r1, "minItems", schema.minLength.value) ELSE r1
          IN IF Has(schema, "maxLength")
             THEN Assign(r2, "maxItems", schema.maxLength.value) ELSE r2

ConvertZodArray(schema, opts, depth) ==
  LET r0 == [type |-> JStr("array")]
      r1 == IF Has(schema, "type")
            THEN Assign(r0, "items", ConvertZodType(ZodDeref(schema.type), opts, depth + 1))
            ELSE r0
  IN IF Has(schema, "exactLength")
     THEN Assign(Assign(r1, "minItems", schema.exactLength.value),
                 "maxItems", schema.exactLength.value)
     ELSE LET r2 == IF Has(schema, "minLength")
                    THEN Assign(r1, "minItems", schema.minLength.value) ELSE r1
          IN IF Has(schema, "maxLength")
             THEN Assign(r2, "maxItems", schema.maxLength.value) ELSE r2

\* A variant of convertZodTuple that sets maxItems whether or not there is a rest schema
ConvertZodTuple_maxItemsAlways(schema, opts, depth) ==
  LET items == IF Has(schema, "items") THEN schema.items ELSE <<>>
      r0 == [ type |-> JStr("array"),
              prefixItems |->
                [i \in DOMAIN items |-> ConvertZodType(ZodDeref(items[i]), opts, depth + 1)] ]
      r1 == IF Has(schema, "rest")
            THEN Assign(r0, "items", ConvertZodType(ZodDeref(schema.rest), opts, depth + 1))
            ELSE Assign(r0, "items", JBool(FALSE))
  IN Assign(Assign(r1, "minItems", Len(items)), "maxItems", Len(items))

ConvertZodTuple(schema, opts, depth) ==
  LET items == IF Has(schema, "items") THEN schema.items ELSE <<>>
      r0 == [ type |-> JStr("array"),
              prefixItems |->
                [i \in DOMAIN items |-> ConvertZodType(ZodDeref(items[i]), opts, depth + 1)] ]
      r1 == IF Has(schema, "rest")
            THEN Assign(r0, "items", ConvertZodType(ZodDeref(schema.rest), opts, depth + 1))
            ELSE Assign(r0, "items", JBool(FALSE))
      r2 == Assign(r1, "minItems", Len(items))
  IN IF ~Has(schema, "rest") THEN Assign(r2, "maxItems", Len(items)) ELSE r2

ConvertZodType(schema, opts, depth) ==
  IF DepthExceeded(opts, depth) THEN EmptyNode
  ELSE
  LET typeName == ZodTypeNameOf(schema)
      result == ZodBaseResult(schema, opts)
      Inner(ref) == ConvertZodType(ZodDeref(ref), opts, depth + 1)
  IN
  CASE typeName = "ZodString" -> Spread(result, ConvertZodString(schema, opts))
    [] typeName = "ZodNumber" -> Spread(result, ConvertZodNumber(schema))
    [] typeName = "ZodBigInt" ->
         Spread(result, [type |-> JStr("integer"), format |-> "int64"])
    [] typeName = "ZodBoolean" -> Spread(result, [type |-> JStr("boolean")])
    [] typeName = "ZodNull" -> Spread(result, [type |-> JStr("null")])
    [] typeName = "ZodUndefined" -> Spread(result, [not |-> EmptyNode])
    [] typeName = "ZodLiteral" ->
         IF Has(schema, "value") THEN Assign(result, "const", schema.value) ELSE result
    [] typeName = "ZodEnum" ->
         Spread(result, [type |-> JStr("string"), enum |-> schema.values])
    [] typeName = "ZodNativeEnum" -> Assign(result, "enum", ZodNativeEnumValues(schema))
    [] typeName = "ZodObject" -> Spread(result, ConvertZodObject(schema, opts, depth))
    [] typeName = "ZodArray" -> Spread(result, ConvertZodArray(schema, opts, depth))
    [] typeName = "ZodTuple" -> Spread(result, ConvertZodTuple(schema, opts, depth))
    [] typeName \in {"ZodUnion", "ZodDiscriminatedUnion"} ->
         ZodUnionResult(result, [i \in DOMAIN schema.options |-> Inner(schema.options[i])])
    [] typeName = "ZodIntersection" ->
         ZodIntersectionResult(result, Inner(schema.left), Inner(schema.right))
    [] typeName = "ZodOptional" -> Spread(result, Inner(schema.innerType))
    [] typeName = "ZodNullable" -> ZodNullableResult(result, Inner(schema.innerType))
    [] typeName = "ZodDefault" ->
         ZodDefaultResult(schema, opts, result, Inner(schema.innerType))
    [] typeName = "ZodCatch" -> Inner(schema.innerType)
    [] typeName = "ZodBranded" -> Inner(schema.type)
    [] typeName = "ZodReadonly" ->
         Assign(Spread(result, Inner(schema.innerType)), "readOnly", TRUE)
    [] typeName = "ZodRecord" ->
         Assign(Assign(result, "type", JStr("object")), "additionalProperties",
                IF Has(schema, "valueType") THEN Inner(schema.valueType) ELSE JBool(TRUE))
    [] typeName = "ZodMap" -> Assign(result, "type", JStr("object"))
    [] typeName = "ZodSet" ->
         LET o == Spread(result, [type |-> JStr("array"), uniqueItems |-> TRUE])
         IN IF Has(schema, "valueType")
            THEN Assign(o, "items", Inner(schema.valueType)) ELSE o
    [] typeName \in {"ZodFunction", "ZodLazy", "ZodPromise", "ZodUnknown", "ZodAny"} ->
         result
    [] typeName = "ZodNever" -> Assign(result, "not", EmptyNode)
    [] typeName = "ZodVoid" -> Assign(result, "type", JStr("null"))
    [] typeName = "ZodDate" ->
         Spread(result, [type |-> JStr("string"), format |-> "date-time"])
    [] typeName = "ZodSymbol" -> Assign(result, "type", JStr("string"))
    [] typeName = "ZodPipeline" -> Inner(schema.in)
    [] typeName = "ZodEffects" -> Inner(schema.schema)
    [] OTHER -> result

\* zodToOpenAPI(schema, options)
ZodToOpenAPI(schema, options) == ConvertZodType(schema, ResolveOptions(options), 0)

----------------------------------------------------------------------------
(* Dialect B: the Joi converter (src/src/adapters/joi.ts).  A description  *)
(* is the record schema.describe() returns: type, flags, rules, keys,      *)
(* items, ordered, matches, allow.  keys is the sequence of its entries in *)
(* Object.entries order.  A rule argument that is a RegExp is              *)
(* [source |-> s]; one that is a string is [chars |-> its characters].     *)

\* The self-referential Joi descriptions
JoiCycleTags == {"object", "array", "alternatives"}

JoiCell(tag) ==
  CASE tag = "object" ->
         [type |-> "object", keys |-> << [key |-> "self", schema |-> [link |-> tag]] >>]
    [] tag = "array" -> [type |-> "array", items |-> << [link |-> tag] >>]
    [] OTHER -> [type |-> "alternatives", matches |-> << [schema |-> [link |-> tag]] >>]

JoiDeref(ref) == IF Has(ref, "link") THEN JoiCell(ref.link) ELSE ref

JoiFlags(desc) == IF Has(desc, "flags") THEN desc.flags ELSE <<>>
JoiRules(desc) == IF Has(desc, "rules") THEN desc.rules ELSE <<>>
JoiArgs(rule) == IF Has(rule, "args") THEN rule.args ELSE <<>>

\* desc.flags?.only, as a condition
JoiOnly(desc) == Has(JoiFlags(desc), "only") /\ JoiFlags(desc).only

RegexFlagChars == {"g", "i", "m", "s", "u", "y"}

\* /^\/(.*)\/[gimsuy]*$/.exec(regex): the index of the closing slash, 0 if no match
RegexClosingSlash(chars) ==
  LET ends == {j \in 2..Len(chars) :
                 /\ chars[j] = "/"
                 /\ \A k \in (j + 1)..Len(chars) : chars[k] \in RegexFlagChars}
  IN IF Len(chars) >= 2 /\ chars[1] = "/" /\ ends # {}
     THEN CHOOSE j \in ends : \A k \in ends : k <= j
     ELSE 0

\* one iteration of the loop over a string description's rules
JoiStringRule(result, rule) ==
  LET args == JoiArgs(rule) IN
  CASE rule.name = "min" -> Assign(result, "minLength", args.limit)
    [] rule.name = "max" -> Assign(result, "maxLength", args.limit)
    [] rule.name = "length" ->
         Assign(Assign(result, "minLength", args.limit), "maxLength", args.limit)
    [] rule.name = "email" -> Assign(result, "format", "email")
    [] rule.name = "uri" -> Assign(result, "format", "uri")
    [] rule.name \in {"guid", "uuid"} -> Assign(result, "format", "uuid")
    [] rule.name = "isoDate" -> Assign(result, "format", "date-time")
    [] rule.name = "isoDuration" -> Assign(result, "format", "duration")
    [] rule.name = "hostname" -> Assign(result, "format", "hostname")
    [] rule.name = "ip" ->
         LET versions == IF Has(args, "version") THEN args.version ELSE <<>>
         IN IF Includes(versions, "ipv6") /\ ~Includes(versions, "ipv4")
            THEN Assign(result, "format", "ipv6")
            ELSE IF Includes(versions, "ipv4") /\ ~Includes(versions, "ipv6")
                 THEN Assign(result, "format", "ipv4")
                 ELSE result
    [] rule.name \in {"pattern", "regex"} ->
         IF ~Has(args, "regex") THEN result
         ELSE IF Has(args.regex, "source")
              THEN Assign(result, "pattern", args.regex.source)
              ELSE LET chars == args.regex.chars
                       j == RegexClosingSlash(chars)
                   IN Assign(result, "pattern",
                             IF j > 0 THEN Join(SubSeq(chars, 2, j - 1)) ELSE Join(chars))
    [] rule.name = "alphanum" -> Assign(result, "pattern", "^[a-zA-Z0-9]*$")
    [] rule.name = "token" -> Assign(result, "pattern", "^[a-zA-Z0-9_]*$")
    [] rule.name = "hex" -> Assign(result, "pattern", "^[a-fA-F0-9]*$")
    [] rule.name = "base64" -> Assign(result, "contentEncoding", "base64")
    [] rule.name = "dataUri" -> Assign(result, "pattern", "^data:.*;base64,")
    [] OTHER -> result

RECURSIVE JoiStringRules(_, _)
JoiStringRules(result, rules) ==
  IF rules = <<>> THEN result
  ELSE JoiStringRules(JoiStringRule(result, Head(rules)), Tail(rules))

ConvertString(desc, opts) == JoiStringRules([type |-> JStr("string")], JoiRules(desc))

\* one iteration of the loop over a number description's rules (isInteger apart)
JoiNumberRule(result, rule) ==
  LET args == JoiArgs(rule) IN
  CASE rule.name = "min" -> Assign(result, "minimum", args.limit)
    [] rule.name = "max" -> Assign(result, "maximum", args.limit)
    [] rule.name = "greater" -> Assign(result, "exclusiveMinimum", args.limit)
    [] rule.name = "less" -> Assign(result, "exclusiveMaximum", args.limit)
    [] rule.name = "multiple" -> Assign(result, "multipleOf", args.base)
    [] OTHER -> result

RECURSIVE JoiNumberRules(_, _)
JoiNumberRules(result, rules) ==
  IF rules = <<>> THEN result
  ELSE JoiNumberRules(JoiNumberRule(result, Head(rules)), Tail(rules))

ConvertNumber(desc) ==
  LET rules == JoiRules(desc)
      isInteger == \E i \in DOMAIN rules : rules[i].name = "integer"
  IN Assign(JoiNumberRules(EmptyNode, rules), "type",
            JStr(IF isInteger THEN "integer" ELSE "number"))

ConvertBoolean(desc) == [type |-> JStr("boolean")]

\* one iteration of the loop over an array description's rules
JoiArrayRule(result, rule) ==
  LET args == JoiArgs(rule) IN
  CASE rule.name = "min" -> Assign(result, "minItems", args.limit)
    [] rule.name = "max" -> Assign(result, "maxItems", args.limit)
    [] rule.name = "length" ->
         Assign(Assign(result, "minItems", args.limit), "maxItems", args.limit)
    [] rule.name = "unique" -> Assign(result, "uniqueItems", TRUE)
    [] OTHER -> result

RECURSIVE JoiArrayRules(_, _)
JoiArrayRules(result, rules) ==
  IF rules = <<>> THEN result
  ELSE JoiArrayRules(JoiArrayRule(result, Head(rules)), Tail(rules))

\* the metadata collected before the dispatch: flags.description, flags.default
JoiBaseResult(desc, opts) ==
  LET flags == JoiFlags(desc)
      r0 == IF opts.includeDescriptions /\ Has(flags, "description") /\ flags.description # ""
            THEN [description |-> flags.description] ELSE EmptyNode
  IN IF opts.includeDefaults /\ Has(flags, "default")
     THEN Assign(r0, "default", flags.default) ELSE r0

\* A variant of the enum step that never lists null among the values
JoiEnumResult_dropsNull(desc, result) ==
  Assign(result, "enum",
         FilterIdx(desc.allow, {i \in DOMAIN desc.allow : desc.allow[i] # JNull}, 1))

\* flags.only with a non-empty allow list: the node is an enum
JoiIsEnum(desc) == JoiOnly(desc) /\ Has(desc, "allow") /\ Len(desc.allow) > 0

JoiEnumResult(desc, result) ==
  LET enumValues == FilterIdx(desc.allow, {i \in DOMAIN desc.allow : desc.allow[i] # JNull}, 1)
      hasNull == Includes(desc.allow, JNull)
  IN IF hasNull THEN Assign(result, "enum", desc.allow)
     ELSE Assign(result, "enum", enumValues)

\* A variant of the step below that wraps a node without type in anyOf even
\* when the node is empty
JoiNullableResult_wrapsEmpty(desc, combined) ==
  LET hasNullAllow == Has(desc, "allow") /\ Includes(desc.allow, JNull)
  IN IF hasNullAllow /\ ~JoiOnly(desc)
     THEN IF Has(combined, "type") /\ IsJSString(combined.type)
          THEN Assign(combined, "type", [arr |-> <<combined.type.str, "null">>])
          ELSE IF /\ Has(combined, "type") /\ IsJSArray(combined.type)
                  /\ ~Includes(combined.type.arr, "null")
               THEN Assign(combined, "type", [arr |-> Append(combined.type.arr, "null")])
               ELSE IF ~Has(combined, "type")
                    THEN [anyOf |-> <<combined, [type |-> JStr("null")]>>]
                    ELSE combined
     ELSE combined

\* the last step of convertJoiDescription: fold an allowed null into the node
JoiNullableResult(desc, combined) ==
  LET hasNullAllow == Has(desc, "allow") /\ Includes(desc.allow, JNull)
  IN IF hasNullAllow /\ ~JoiOnly(desc)
     THEN IF Has(combined, "type") /\ IsJSString(combined.type)
          THEN Assign(combined, "type", [arr |-> <<combined.type.str, "null">>])
          ELSE IF /\ Has(combined, "type") /\ IsJSArray(combined.type)
                  /\ ~Includes(combined.type.arr, "null")
               THEN Assign(combined, "type", [arr |-> Append(combined.type.arr, "null")])
               ELSE IF ~Has(combined, "type") /\ DOMAIN combined # {}
                    THEN [anyOf |-> <<combined, [type |-> JStr("null")]>>]
                    ELSE combined
     ELSE combined

\* A variant of the test below: required unless presence is 'optional'
JoiIsRequired_notOptional(fieldDesc) ==
  ~(Has(JoiFlags(fieldDesc), "presence") /\ JoiFlags(fieldDesc).presence = "optional")

\* fieldDesc.flags?.presence === 'required': the test that puts a key in `required`
JoiIsRequired(fieldDesc) ==
  Has(JoiFlags(fieldDesc), "presence") /\ JoiFlags(fieldDesc).presence = "required"

\* A variant of the fallback below: an unknown type taken for a string
JoiUnknownTypeSchema_string == [type |-> JStr("string")]

\* the schema of a description whose type no arm of the dispatch names
JoiUnknownTypeSchema == EmptyNode

RECURSIVE ConvertJoiDescription(_, _, _)
RECURSIVE ConvertJoiKeys(_, _, _)
RECURSIVE ConvertJoiMatches(_, _, _)

\* the loop over Object.entries(desc.keys): the properties and the required list
ConvertJoiKeys(keys, opts, depth) ==
  IF keys = <<>> THEN [properties |-> <<>>, required |-> <<>>]
  ELSE LET n == Len(keys)
           front == ConvertJoiKeys(SubSeq(keys, 1, n - 1), opts, depth)
           fieldDesc == JoiDeref(keys[n].schema)
       IN [ properties |->
              Assign(front.properties, keys[n].key,
                     ConvertJoiDescription(fieldDesc, opts, depth + 1)),
            required |->
              IF JoiIsRequired(fieldDesc) THEN Append(front.required, keys[n].key)
              ELSE front.required ]

ConvertObject(desc, opts, depth) ==
  LET fields == ConvertJoiKeys(IF Has(desc, "keys") THEN desc.keys ELSE <<>>, opts, depth)
      r0 == [type |-> JStr("object")]
      r1 == IF DOMAIN fields.properties # {}
            THEN Assign(r0, "properties", fields.properties) ELSE r0
      r2 == IF Len(fields.required) > 0
            THEN Assign(r1, "required", fields.required) ELSE r1
      flags == JoiFlags(desc)
      \* flags.allowUnknown ?? flags.unknown, compared with false
      unknownIsFalse ==
        IF Has(flags, "allowUnknown") THEN ~flags.allowUnknown
        ELSE Has(flags, "unknown") /\ ~flags.unknown
      r3 == IF unknownIsFalse THEN Assign(r2, "additionalProperties", JBool(FALSE)) ELSE r2
      rules == JoiRules(desc)
      patternRules == FilterIdx(rules, {i \in DOMAIN rules : rules[i].name = "pattern"}, 1)
  IN IF Len(patternRules) > 0 /\ Has(JoiArgs(patternRules[1]), "value")
     THEN Assign(r3, "additionalProperties",
                 ConvertJoiDescription(JoiDeref(patternRules[1].args.value), opts, depth + 1))
     ELSE r3

ConvertArray(desc, opts, depth) ==
  LET r0 == [type |-> JStr("array")]
      Item(ref) == ConvertJoiDescription(JoiDeref(ref), opts, depth + 1)
  IN IF Has(desc, "ordered") /\ Len(desc.ordered) > 0
     THEN [ type |-> JStr("array"),
            prefixItems |-> [i \in DOMAIN desc.ordered |-> Item(desc.ordered[i])],
            items |-> JBool(FALSE),
            minItems |-> Len(desc.ordered),
            maxItems |-> Len(desc.ordered) ]
     ELSE LET r1 == IF Has(desc, "items") /\ Len(desc.items) > 0
                    THEN IF Len(desc.items) = 1
                         THEN Assign(r0, "items", Item(desc.items[1]))
                         ELSE Assign(r0, "items",
                                [anyOf |-> [i \in DOMAIN desc.items |-> Item(desc.items[i])]])
                    ELSE r0
          IN JoiArrayRules(r1, JoiRules(desc))

\* matches.map(...).filter(s => s !== null)
ConvertJoiMatches(matches, opts, depth) ==
  IF matches = <<>> THEN <<>>
  ELSE LET m == Head(matches)
       IN (IF Has(m, "schema")
           THEN << ConvertJoiDescription(JoiDeref(m.schema), opts, depth + 1) >>
           ELSE <<>>)
          \o ConvertJoiMatches(Tail(matches), opts, depth)

\* A variant of convertAlternatives that wraps a single surviving schema in anyOf
ConvertAlternatives_alwaysAnyOf(desc, opts, depth) ==
  LET schemas == ConvertJoiMatches(IF Has(desc, "matches") THEN desc.matches ELSE <<>>,
                                   opts, depth)
  IN IF Len(schemas) = 0 THEN EmptyNode ELSE [anyOf |-> schemas]

ConvertAlternatives(desc, opts, depth) ==
  LET schemas == ConvertJoiMatches(IF Has(desc, "matches") THEN desc.matches ELSE <<>>,
                                   opts, depth)
  IN IF Len(schemas) = 0 THEN EmptyNode
     ELSE IF Len(schemas) = 1 THEN schemas[1]
          ELSE [anyOf |-> schemas]

\* the dispatch on desc.type
JoiTypeSchema(desc, opts, depth) ==
  LET type == IF Has(desc, "type") THEN desc.type ELSE "" IN
  CASE type = "string" -> ConvertString(desc, opts)
    [] type = "number" -> ConvertNumber(desc)
    [] type = "boolean" -> ConvertBoolean(desc)
    [] type = "object" -> ConvertObject(desc, opts, depth)
    [] type = "array" -> ConvertArray(desc, opts, depth)
    [] type = "alternatives" -> ConvertAlternatives(desc, opts, depth)
    [] type = "date" -> [type |-> JStr("string"), format |-> "date-time"]
    [] type = "binary" -> [type |-> JStr("string"), contentEncoding |-> "base64"]
    [] type = "any" -> EmptyNode
    [] OTHER -> JoiUnknownTypeSchema

ConvertJoiDescription(desc, opts, depth) ==
  IF DepthExceeded(opts, depth) THEN EmptyNode
  ELSE LET result == JoiBaseResult(desc, opts)
       IN IF JoiIsEnum(desc) THEN JoiEnumResult(desc, result)
          ELSE JoiNullableResult(desc, Spread(result, JoiTypeSchema(desc, opts, depth)))

\* joiDescriptionToOpenAPI(description, options)
JoiDescriptionToOpenAPI(description, options) ==
  ConvertJoiDescription(description, ResolveOptions(options), 0)

\* joiToOpenAPI(schema, options): schema.describe() is the schema's `description` here
JoiToOpenAPI(schema, options) ==
  ConvertJoiDescription(schema.describe, ResolveOptions(options), 0)

----------------------------------------------------------------------------
(* The recursive calls of a conversion.  ZodSubSchemas and JoiSubSchemas   *)
(* list, in call order, the nested schemas on which a call that passed the *)
(* depth guard calls the converter again (always with depth + 1).          *)

RECURSIVE ZodShapeSubSchemas(_)
ZodShapeSubSchemas(shape) ==
  IF shape = <<>> THEN <<>>
  ELSE <<UnwrapZodOptional(ZodDeref(Head(shape).schema))>> \o ZodShapeSubSchemas(Tail(shape))

ZodSubSchemas(schema) ==
  LET typeName == ZodTypeNameOf(schema)
      Opt(f) == IF Has(schema, f) THEN <<schema[f]>> ELSE <<>>
  IN
  CASE typeName = "ZodObject" ->
         ZodShapeSubSchemas(IF Has(schema, "shape") THEN schema.shape ELSE <<>>)
           \o (IF Has(schema, "catchall")
                  /\ ZodTypeNameOf(ZodDeref(schema.catchall)) # "ZodNever"
               THEN <<schema.catchall>> ELSE <<>>)
    [] typeName = "ZodArray" -> Opt("type")
    [] typeName = "ZodTuple" ->
         (IF Has(schema, "items") THEN schema.items ELSE <<>>) \o Opt("rest")
    [] typeName \in {"ZodUnion", "ZodDiscriminatedUnion"} -> schema.options
    [] typeName = "ZodIntersection" -> <<schema.left, schema.right>>
    [] typeName \in {"ZodOptional", "ZodNullable", "ZodDefault", "ZodCatch", "ZodReadonly"} ->
         <<schema.innerType>>
    [] typeName = "ZodBranded" -> <<schema.type>>
    [] typeName \in {"ZodRecord", "ZodSet"} -> Opt("valueType")
    [] typeName = "ZodPipeline" -> <<schema.in>>
    [] typeName = "ZodEffects" -> <<schema.schema>>
    [] OTHER -> <<>>

\* the depths of all the calls of convertZodType that the call (schema, opts, depth) leads to
RECURSIVE ZodCallDepths(_, _, _)
ZodCallDepths(schema, opts, depth) ==
  {depth} \cup
    IF DepthExceeded(opts, depth) THEN {}
    ELSE LET sub == ZodSubSchemas(schema)
         IN UNION {ZodCallDepths(ZodDeref(sub[i]), opts, depth + 1) : i \in DOMAIN sub}

RECURSIVE JoiMatchSubSchemas(_)
JoiMatchSubSchemas(matches) ==
  IF matches = <<>> THEN <<>>
  ELSE (IF Has(Head(matches), "schema") THEN <<Head(matches).schema>> ELSE <<>>)
         \o JoiMatchSubSchemas(Tail(matches))

JoiSubSchemas(desc) ==
  LET type == IF Has(desc, "type") THEN desc.type ELSE ""
      rules == JoiRules(desc)
      patternRules == FilterIdx(rules, {i \in DOMAIN rules : rules[i].name = "pattern"}, 1)
  IN
  IF JoiIsEnum(desc) THEN <<>>
  ELSE
  CASE type = "object" ->
         (IF Has(desc, "keys") THEN [i \in DOMAIN desc.keys |-> desc.keys[i].schema] ELSE <<>>)
           \o (IF Len(patternRules) > 0 /\ Has(JoiArgs(patternRules[1]), "value")
               THEN <<patternRules[1].args.value>> ELSE <<>>)
    [] type = "array" ->
         IF Has(desc, "ordered") /\ Len(desc.ordered) > 0 THEN desc.ordered
         ELSE IF Has(desc, "items") THEN desc.items ELSE <<>>
    [] type = "alternatives" ->
         JoiMatchSubSchemas(IF Has(desc, "matches") THEN desc.matches ELSE <<>>)
    [] OTHER -> <<>>

\* the depths of all the calls of convertJoiDescription that the call (desc, opts, depth) leads to
RECURSIVE JoiCallDepths(_, _, _)
JoiCallDepths(desc, opts, depth) ==
  {depth} \cup
    IF DepthExceeded(opts, depth) THEN {}
    ELSE LET sub == JoiSubSchemas(desc)
         IN UNION {JoiCallDepths(JoiDeref(sub[i]), opts, depth + 1) : i \in DOMAIN sub}

----------------------------------------------------------------------------
(* The inputs the calls are drawn from                                     *)

\* maxDepth options tried: absent, and -2 .. MaxMaxDepth
MaxMaxDepth == 2
\* nesting of the deepest generated schemas below their root
MaxNest == 3

OptionsInputs ==
  { m @@ d @@ f :
      m \in {<<>>} \cup {[maxDepth |-> k] : k \in (-2)..MaxMaxDepth},
      d \in {<<>>} \cup {[includeDescriptions |-> b] : b \in BOOLEAN},
      f \in {<<>>} \cup {[includeDefaults |-> b] : b \in BOOLEAN} }

Described(schema, text) == Assign(schema, "description", text)

ZLeaf(tag) == [typeName |-> tag]
ZString(checks) == [typeName |-> "ZodString", checks |-> checks]
ZNumber(checks) == [typeName |-> "ZodNumber", checks |-> checks]

\* a wrapper or one-element container of the given tag around `inner`
ZWrap(tag, inner) ==
  CASE tag \in {"ZodBranded", "ZodArray"} -> [typeName |-> tag, type |-> inner]
    [] tag = "ZodPipeline" -> [typeName |-> tag, in |-> inner, out |-> ZLeaf("ZodAny")]
    [] tag = "ZodEffects" -> [typeName |-> tag, schema |-> inner]
    [] tag \in {"ZodSet", "ZodRecord"} -> [typeName |-> tag, valueType |-> inner]
    [] OTHER -> [typeName |-> tag, innerType |-> inner]

ZDefault(inner, value) ==
  [typeName |-> "ZodDefault", innerType |-> inner, defaultValue |-> value]

ZObject(shape, unknownKeys, catchall) ==
  [typeName |-> "ZodObject", shape |-> shape, unknownKeys |-> unknownKeys,
   catchall |-> catchall]

ZUnion(options) == [typeName |-> "ZodUnion", options |-> options]

ZodPlainTags ==
  {"ZodBigInt", "ZodBoolean", "ZodNull", "ZodUndefined", "ZodMap", "ZodFunction",
   "ZodLazy", "ZodPromise", "ZodUnknown", "ZodAny", "ZodNever", "ZodVoid", "ZodDate",
   "ZodSymbol", "ZodFuture", ""}

ZodStringCheckLists ==
  { <<>>,
    <<[kind |-> "min", value |-> 2], [kind |-> "max", value |-> 10]>>,
    <<[kind |-> "max", value |-> 10], [kind |-> "length", value |-> 5]>>,
    <<[kind |-> "email"]>>,
    <<[kind |-> "uuid"], [kind |-> "nanoid"]>>,
    <<[kind |-> "regex", regex |-> [source |-> "^[a-z]+$"]]>>,
    <<[kind |-> "startsWith", value |-> [chars |-> <<"a", ".", "b">>]]>>,
    <<[kind |-> "trim"], [kind |-> "base64"]>> }

ZodNumberCheckLists ==
  { <<>>,
    <<[kind |-> "int"]>>,
    <<[kind |-> "min", value |-> 0, inclusive |-> TRUE],
      [kind |-> "max", value |-> 150, inclusive |-> TRUE]>>,
    <<[kind |-> "min", value |-> 0, inclusive |-> FALSE], [kind |-> "int"]>>,
    <<[kind |-> "max", value |-> 9, inclusive |-> FALSE],
      [kind |-> "multipleOf", value |-> 3]>>,
    <<[kind |-> "finite"], [kind |-> "safe"]>>,
    <<[kind |-> "min", value |-> 0, inclusive |-> TRUE],
      [kind |-> "min", value |-> 5, inclusive |-> FALSE]>>,
    <<[kind |-> "max", value |-> 7, inclusive |-> TRUE],
      [kind |-> "max", value |-> 4, inclusive |-> TRUE], [kind |-> "int"]>>,
    <<[kind |-> "min", value |-> 2], [kind |-> "multipleOf", value |-> 2],
      [kind |-> "multipleOf", value |-> 5]>> }

ZodValueLeaves ==
  { [typeName |-> "ZodLiteral", value |-> JStr("a")],
    [typeName |-> "ZodLiteral", value |-> JNum(1)],
    [typeName |-> "ZodLiteral", value |-> JNull],
    [typeName |-> "ZodLiteral"],
    [typeName |-> "ZodEnum", values |-> <<JStr("a"), JStr("b")>>],
    [typeName |-> "ZodNativeEnum", values |-> <<JStr("x"), JStr("y")>>],
    [typeName |-> "ZodNativeEnum", values |-> <<JStr("A"), JStr("B"), JNum(0), JNum(1)>>],
    [typeName |-> "ZodNativeEnum"] }

ZodLeaves ==
  {ZLeaf(tag) : tag \in ZodPlainTags}
    \cup {ZString(c) : c \in ZodStringCheckLists}
    \cup {ZNumber(c) : c \in ZodNumberCheckLists}
    \cup ZodValueLeaves

\* the leaves that also come with a description ("" is what describe("") stores)
ZodDescribedLeaves ==
  {Described(s, "doc") :
     s \in {ZLeaf("ZodAny"), ZLeaf("ZodFuture"), ZLeaf(""), ZLeaf("ZodNever"),
            ZString(<<>>), ZNumber(<<[kind |-> "int"]>>),
            [typeName |-> "ZodEnum", values |-> <<JStr("a"), JStr("b")>>]}}
    \cup {Described(ZString(<<>>), "")}

\* the schemas nested inside the generated wrappers and containers
ZodKids ==
  { ZString(<<>>), Described(ZString(<<[kind |-> "email"]>>), "doc"),
    ZNumber(<<[kind |-> "int"]>>), ZLeaf("ZodAny"), ZLeaf("ZodFuture") }

ZodWrapTags ==
  {"ZodOptional", "ZodNullable", "ZodCatch", "ZodBranded", "ZodReadonly", "ZodPipeline",
   "ZodEffects", "ZodArray", "ZodSet", "ZodRecord"}

ZodDefaultValues == {JStr("dv"), JNum(0), JNull, [impure |-> TRUE]}

ZodWrapped ==
  LET bare == {ZWrap(tag, k) : tag \in ZodWrapTags, k \in ZodKids}
                \cup {ZDefault(k, v) : k \in ZodKids, v \in ZodDefaultValues}
                \cup {[typeName |-> "ZodDefault", innerType |-> ZString(<<>>)],
                      [typeName |-> "ZodRecord"], [typeName |-> "ZodSet"],
                      [typeName |-> "ZodArray"],
                      [typeName |-> "ZodArray", type |-> ZString(<<>>),
                       minLength |-> [value |-> 1], maxLength |-> [value |-> 4]],
                      [typeName |-> "ZodArray", type |-> ZString(<<>>),
                       minLength |-> [value |-> 1], exactLength |-> [value |-> 3]],
                      ZWrap("ZodNullable", ZWrap("ZodNullable", ZString(<<>>))),
                      ZWrap("ZodNullable", ZWrap("ZodOptional", ZDefault(ZString(<<>>), JStr("dv"))))}
  IN bare \cup {Described(s, "wrap") : s \in bare}

ZodBranchKids == {ZString(<<>>), Described(ZNumber(<<>>), "doc"), ZLeaf("ZodNull")}

ZodBranched ==
  LET seqs == {<<>>} \cup {<<a>> : a \in ZodBranchKids}
                \cup {<<a, b>> : a \in ZodBranchKids, b \in ZodBranchKids}
      rests == {<<>>} \cup {[rest |-> a] : a \in {ZString(<<>>), ZLeaf("ZodAny")}}
  IN {[typeName |-> tag, options |-> q] :
        tag \in {"ZodUnion", "ZodDiscriminatedUnion"}, q \in seqs}
       \cup {Described(ZUnion(<<a, ZLeaf("ZodNull")>>), "either") : a \in ZodBranchKids}
       \cup {[typeName |-> "ZodIntersection", left |-> a, right |-> b] :
               a \in ZodBranchKids, b \in ZodBranchKids}
       \cup {[typeName |-> "ZodTuple", items |-> q] @@ r : q \in seqs, r \in rests}
       \cup {[typeName |-> "ZodTuple"]}

\* the ways a field of an object is declared, over one inner schema
ZodFieldForms(k) ==
  { k, ZWrap("ZodOptional", k), ZDefault(k, JStr("dv")), ZWrap("ZodNullable", k),
    Described(ZWrap("ZodOptional", k), "opt") }

ZodFields ==
  UNION {ZodFieldForms(k) : k \in {ZString(<<>>), Described(ZNumber(<<>>), "doc")}}
    \cup {ZDefault(ZDefault(ZString(<<>>), JNum(1)), JNum(2)),
          ZWrap("ZodOptional", ZWrap("ZodOptional", ZString(<<>>)))}

ZodObjects ==
  LET never == ZLeaf("ZodNever")
      shapes == {<<>>} \cup {<<[key |-> "a", schema |-> f]>> : f \in ZodFields}
                  \cup {<<[key |-> "a", schema |-> f], [key |-> "b", schema |-> g]>> :
                          f \in ZodFields, g \in ZodFieldForms(ZString(<<>>))}
                  \cup {<<[key |-> "b", schema |-> ZString(<<>>)],
                          [key |-> "a", schema |-> ZString(<<>>)]>>}
      small == {q \in shapes : Len(q) <= 1}
  IN {ZObject(q, "strip", never) : q \in shapes}
       \cup {ZObject(q, u, c) :
               q \in small, u \in {"strict", "passthrough"},
               c \in {never, ZString(<<>>), ZLeaf("ZodAny")}}
       \cup {ZObject(q, "strip", ZString(<<>>)) : q \in small}
       \cup {[typeName |-> "ZodObject"],
             Described(ZObject(<<[key |-> "a", schema |-> ZString(<<>>)]>>, "strip", never),
                       "obj")}

\* the constructors the deep schemas are nested with
ZodDeepen(s) ==
  { ZWrap("ZodNullable", s), ZWrap("ZodOptional", s), ZWrap("ZodArray", s),
    ZObject(<<[key |-> "x", schema |-> s]>>, "strip", ZLeaf("ZodNever")),
    ZUnion(<<s, ZLeaf("ZodNull")>>) }

RECURSIVE ZodDeep(_)
ZodDeep(n) ==
  IF n = 0 THEN {ZString(<<>>), ZLeaf("ZodAny")}
  ELSE UNION {ZodDeepen(s) : s \in ZodDeep(n - 1)}

ZodCyclic == {ZodCell(tag) : tag \in ZodCycleTags}

ZodInputs ==
  ZodLeaves \cup ZodDescribedLeaves \cup ZodWrapped \cup ZodBranched \cup ZodObjects
    \cup UNION {ZodDeep(n) : n \in 1..MaxNest} \cup ZodCyclic

JDesc(type) == [type |-> type]

\* desc with the given flags added to its flags object
JFlagged(desc, flags) ==
  IF DOMAIN flags = {} THEN desc ELSE Assign(desc, "flags", flags @@ JoiFlags(desc))

JoiTypes == {"string", "number", "boolean", "date", "binary", "any", "link"}

\* the allow lists and only flags a description comes with
JoiAllowForms ==
  { <<>>,
    [allow |-> <<JNull>>],
    [allow |-> <<JStr("a")>>],
    [allow |-> <<JStr("a"), JNull>>, flags |-> [only |-> TRUE]],
    [allow |-> <<JStr("a"), JStr("b")>>, flags |-> [only |-> TRUE]],
    [flags |-> [only |-> TRUE]] }

JoiMetaForms ==
  { <<>>, [description |-> "doc"], [default |-> JStr("dv")],
    [description |-> "doc", default |-> JNum(0)] }

JoiStringRuleLists ==
  { <<[name |-> "min", args |-> [limit |-> 2]], [name |-> "max", args |-> [limit |-> 10]]>>,
    <<[name |-> "length", args |-> [limit |-> 5]]>>,
    <<[name |-> "email"]>>,
    <<[name |-> "guid"], [name |-> "truncate"]>>,
    <<[name |-> "ip", args |-> [version |-> <<"ipv4">>]]>>,
    <<[name |-> "ip", args |-> [version |-> <<"ipv4", "ipv6">>]]>>,
    <<[name |-> "pattern", args |-> [regex |-> [chars |-> <<"/", "a", "/", "b", "/", "i">>]]]>>,
    <<[name |-> "pattern", args |-> [regex |-> [chars |-> <<"a", "b">>]]]>>,
    <<[name |-> "regex", args |-> [regex |-> [source |-> "^[a-z]+$"]]]>>,
    <<[name |-> "alphanum"], [name |-> "base64"]>> }

JoiNumberRuleLists ==
  { <<[name |-> "integer"], [name |-> "min", args |-> [limit |-> 0]],
      [name |-> "max", args |-> [limit |-> 150]]>>,
    <<[name |-> "greater", args |-> [limit |-> 0]], [name |-> "less", args |-> [limit |-> 9]]>>,
    <<[name |-> "multiple", args |-> [base |-> 3]], [name |-> "precision", args |-> [limit |-> 2]]>>,
    <<[name |-> "port"], [name |-> "integer"]>> }

JoiLeaves ==
  {JFlagged(a @@ JDesc(type), m) : type \in JoiTypes, a \in JoiAllowForms, m \in JoiMetaForms}
    \cup {[type |-> "string", rules |-> r] : r \in JoiStringRuleLists}
    \cup {[type |-> "number", rules |-> r] : r \in JoiNumberRuleLists}
    \cup {<<>>, [flags |-> [description |-> "doc"], allow |-> <<JNull>>]}

JoiKids ==
  { JDesc("string"), JFlagged(JDesc("number"), [description |-> "doc"]), JDesc("link") }

\* the ways a key of an object is declared, over one description
JoiFieldForms(k) ==
  {k} \cup {JFlagged(k, [presence |-> p]) : p \in {"required", "optional", "forbidden"}}

JoiFields ==
  UNION {JoiFieldForms(k) : k \in {JDesc("string"),
                                  JFlagged(JDesc("number"), [description |-> "doc"])}}
    \cup {JFlagged([type |-> "string", allow |-> <<JNull>>], [presence |-> "required"])}

JoiObjects ==
  LET shapes == {<<>>} \cup {<<[key |-> "a", schema |-> f]>> : f \in JoiFields}
                  \cup {<<[key |-> "a", schema |-> f], [key |-> "b", schema |-> g]>> :
                          f \in JoiFields, g \in JoiFieldForms(JDesc("string"))}
                  \cup {<<[key |-> "b", schema |-> JFlagged(JDesc("string"), [presence |-> "required"])],
                          [key |-> "a", schema |-> JFlagged(JDesc("string"), [presence |-> "required"])]>>}
      small == {q \in shapes : Len(q) <= 1}
      extras == { [flags |-> [allowUnknown |-> FALSE]], [flags |-> [allowUnknown |-> TRUE]],
                  [flags |-> [unknown |-> FALSE]],
                  [flags |-> [unknown |-> TRUE, description |-> "obj"], allow |-> <<JNull>>],
                  [rules |-> <<[name |-> "pattern",
                               args |-> [value |-> JDesc("string")]]>>],
                  [rules |-> <<[name |-> "min", args |-> [limit |-> 1]],
                              [name |-> "pattern", args |-> [value |-> JDesc("number")]],
                              [name |-> "pattern", args |-> [value |-> JDesc("string")]]>>,
                   flags |-> [unknown |-> FALSE]] }
  IN {[type |-> "object", keys |-> q] : q \in shapes}
       \cup {[type |-> "object", keys |-> q] @@ e : q \in small, e \in extras}
       \cup {JDesc("object")}

JoiArrays ==
  LET seqs == {<<a>> : a \in JoiKids} \cup {<<a, b>> : a \in JoiKids, b \in JoiKids}
      ruleLists == { <<>>,
                     <<[name |-> "min", args |-> [limit |-> 1]], [name |-> "unique"]>>,
                     <<[name |-> "length", args |-> [limit |-> 2]], [name |-> "sparse"]>> }
  IN {[type |-> "array", items |-> q, rules |-> r] : q \in seqs \cup {<<>>}, r \in ruleLists}
       \cup {[type |-> "array", ordered |-> q, rules |-> r] : q \in seqs, r \in ruleLists}
       \cup {JDesc("array"),
             [type |-> "array", ordered |-> <<JDesc("string")>>, items |-> <<JDesc("number")>>],
             [type |-> "array", ordered |-> <<>>, items |-> <<JDesc("number")>>]}

JoiAlternatives ==
  LET ms == { [schema |-> JDesc("string")],
              [schema |-> JFlagged(JDesc("number"), [description |-> "doc"])],
              [is |-> JDesc("boolean"), then |-> JDesc("string"), otherwise |-> JDesc("number")] }
      seqs == {<<>>} \cup {<<a>> : a \in ms} \cup {<<a, b>> : a \in ms, b \in ms}
      extras == { <<>>, [allow |-> <<JNull>>],
                  [allow |-> <<JNull>>, flags |-> [description |-> "alt"]] }
  IN {[type |-> "alternatives", matches |-> q] @@ e : q \in seqs, e \in extras}
       \cup {JDesc("alternatives")}

\* the constructors the deep descriptions are nested with
JoiDeepen(d) ==
  { [type |-> "object", keys |-> <<[key |-> "x", schema |-> d]>>],
    [type |-> "array", items |-> <<d>>],
    [type |-> "alternatives", matches |-> <<[schema |-> d]>>, allow |-> <<JNull>>],
    [type |-> "alternatives", matches |-> <<[schema |-> d], [schema |-> JDesc("boolean")]>>] }

RECURSIVE JoiDeep(_)
JoiDeep(n) ==
  IF n = 0 THEN {JDesc("string"), JDesc("any")}
  ELSE UNION {JoiDeepen(d) : d \in JoiDeep(n - 1)}

JoiCyclic == {JoiCell(tag) : tag \in JoiCycleTags}

\* typed descriptions with rules or keys that are also restricted to a list of values
JoiEnumForms ==
  { [type |-> "string", rules |-> <<[name |-> "min", args |-> [limit |-> 2]]>>,
     allow |-> <<JStr("a"), JNull>>, flags |-> [only |-> TRUE, description |-> "doc"]],
    [type |-> "number", rules |-> <<[name |-> "integer"]>>,
     allow |-> <<JNum(1), JNum(2)>>, flags |-> [only |-> TRUE, default |-> JNum(1)]],
    [type |-> "object",
     keys |-> <<[key |-> "a", schema |-> JFlagged(JDesc("string"), [presence |-> "required"])]>>,
     allow |-> <<JStr("a")>>, flags |-> [only |-> TRUE]],
    [type |-> "alternatives", matches |-> <<[schema |-> JDesc("string")]>>,
     allow |-> <<JNull>>, flags |-> [only |-> TRUE]] }

JoiInputs ==
  JoiLeaves \cup JoiObjects \cup JoiArrays \cup JoiAlternatives \cup JoiEnumForms
    \cup UNION {JoiDeep(n) : n \in 1..MaxNest} \cup JoiCyclic

\* a Joi schema object: describe() returns its description
JoiSchemaOf(description) == [describe |-> description]

----------------------------------------------------------------------------
(* The state machine: a caller making a conversion call, drawn from the    *)
(* inputs above; the call is one step.  Under Spec a behaviour makes one   *)
(* call: the converters keep no state, so a later call starts from the     *)
(* same state as the first.                                                *)
(* A self-referential schema is converted with an explicit maxDepth only:  *)
(* under the default of 20 the conversion nests 21 calls, which is the     *)
(* same computation one level at a time but more than the model checker    *)
(* can evaluate.                                                           *)

\* A variant in which the defaults are filled into the caller's options object
\* (options.maxDepth ??= 20, ...) instead of a new one
ZodArgsAfter_defaultsInPlace(schema, options) ==
  [schema |-> schema, options |-> ResolveOptions(options)]

\* The caller's two argument objects after zodToOpenAPI returned: opts is a new
\* object (zod.ts:71) and no statement of the converter assigns to a property of
\* the schema, of its _def or of options
ZodArgsAfter(schema, options) == [schema |-> schema, options |-> options]

\* The same for joiToOpenAPI and joiDescriptionToOpenAPI (joi.ts:141, 168)
JoiArgsAfter(schema, options) == [schema |-> schema, options |-> options]

NoCall == [api |-> "none"]

\* the raw OperationObjects the caller holds: one without and one with an
\* operationId of its own
RawOperations ==
  << [responses |-> "ok"], [responses |-> "ok", operationId |-> "custom"] >>

Init ==
  /\ call = NoCall
  /\ post = <<>>
  /\ out = <<>>
  /\ env = 0
  /\ seen = <<>>
  /\ builders = <<>>
  /\ ops = RawOperations
  /\ before = <<>>

ZodToOpenAPICall ==
  /\ call = NoCall
  /\ \E schema \in ZodInputs, options \in OptionsInputs :
    /\ schema \in ZodCyclic => Has(options, "maxDepth")
    /\ call' = [api |-> "zodToOpenAPI", schema |-> schema, options |-> options]
    /\ out' = ZodToOpenAPI(schema, options)
    /\ post' = ZodArgsAfter(schema, options)
    /\ UNCHANGED <<env, seen, builders, ops, before>>

JoiToOpenAPICall ==
  /\ call = NoCall
  /\ \E description \in JoiInputs, options \in OptionsInputs :
    /\ description \in JoiCyclic => Has(options, "maxDepth")
    /\ call' = [api |-> "joiToOpenAPI", schema |-> JoiSchemaOf(description),
                options |-> options]
    /\ out' = JoiToOpenAPI(JoiSchemaOf(description), options)
    /\ post' = JoiArgsAfter(JoiSchemaOf(description), options)
    /\ UNCHANGED <<env, seen, builders, ops, before>>

JoiDescriptionToOpenAPICall ==
  /\ call = NoCall
  /\ \E description \in JoiInputs, options \in OptionsInputs :
    /\ description \in JoiCyclic => Has(options, "maxDepth")
    /\ call' = [api |-> "joiDescriptionToOpenAPI", schema |-> description,
                options |-> options]
    /\ out' = JoiDescriptionToOpenAPI(description, options)
    /\ post' = JoiArgsAfter(description, options)
    /\ UNCHANGED <<env, seen, builders, ops, before>>

Next == ZodToOpenAPICall \/ JoiToOpenAPICall \/ JoiDescriptionToOpenAPICall

Spec == Init /\ [][Next]_vars

----------------------------------------------------------------------------
(* Sessions of several calls.  Under SpecHist the caller makes any number  *)
(* of calls, in any order, and the environment the caller's default        *)
(* functions read (env) moves on between them.  seen is a history          *)
(* variable: it keeps one earlier call, its result and the environment it  *)
(* ran in, for comparison with a later call.                               *)

\* values the environment takes: 0 .. MaxEnv
MaxEnv == 1

HistOptions ==
  {<<>>, [maxDepth |-> 0], [includeDefaults |-> FALSE], [includeDescriptions |-> FALSE]}

HistZodInputs ==
  { ZString(<<>>), Described(ZString(<<>>), "doc"),
    ZWrap("ZodNullable", ZString(<<>>)),
    ZDefault(ZString(<<>>), JStr("dv")),
    ZDefault(ZNumber(<<>>), [impure |-> TRUE]),
    ZWrap("ZodArray", ZDefault(ZNumber(<<>>), [impure |-> TRUE])),
    ZObject(<<[key |-> "a", schema |-> ZDefault(ZNumber(<<>>), [impure |-> TRUE])]>>,
            "strip", ZLeaf("ZodNever")) }

HistJoiInputs ==
  { JDesc("string"), JFlagged(JDesc("number"), [default |-> JNum(0), description |-> "doc"]),
    [type |-> "string", allow |-> <<JNull>>],
    [type |-> "object", keys |-> <<[key |-> "a", schema |-> JDesc("string")]>>],
    [type |-> "array", items |-> <<JDesc("number")>>] }

\* calls counted after the kept one: 0 .. MaxLater
MaxLater == 2

\* the history variable after a call: the first call the observer chose to
\* keep, and the number of calls made since
Remember(keep, c, o) ==
  IF seen = <<>>
  THEN IF keep THEN [call |-> c, out |-> o, env |-> env, later |-> 0] ELSE seen
  ELSE [seen EXCEPT !.later = IF @ < MaxLater THEN @ + 1 ELSE @]

\* the environment changes between two calls
HistTick ==
  /\ env < MaxEnv
  /\ env' = env + 1
  /\ UNCHANGED <<call, post, out, seen, builders, ops, before>>

HistZodCall ==
  \E schema \in HistZodInputs, options \in HistOptions, keep \in BOOLEAN :
    /\ call' = [api |-> "zodToOpenAPI", schema |-> schema, options |-> options]
    /\ out' = ZodToOpenAPI(schema, options)
    /\ post' = ZodArgsAfter(schema, options)
    /\ seen' = Remember(keep, call', out')
    /\ UNCHANGED <<env, builders, ops, before>>

HistJoiCall ==
  \E description \in HistJoiInputs, options \in HistOptions, keep \in BOOLEAN :
    /\ call' = [api |-> "joiToOpenAPI", schema |-> JoiSchemaOf(description),
                options |-> options]
    /\ out' = JoiToOpenAPI(JoiSchemaOf(description), options)
    /\ post' = JoiArgsAfter(JoiSchemaOf(description), options)
    /\ seen' = Remember(keep, call', out')
    /\ UNCHANGED <<env, builders, ops, before>>

HistNext == HistTick \/ HistZodCall \/ HistJoiCall

SpecHist == Init /\ [][HistNext]_vars

----------------------------------------------------------------------------
(* The schema resolver (src/src/builder/_zodResolver.ts).  Its input is any *)
(* JS value.  A string is JStr(s), null and numbers are JNull and JNum(n). *)
(* An object is the record of its members: _def holds the Zod schema       *)
(* record of the converter above (the members of _def and the              *)
(* description), a member that is a function is Callable(name), except     *)
(* describe, which as in JoiSchemaOf is the description the call returns;  *)
(* a member that is not a function is a primitive value.                   *)

Callable(name) == [fn |-> name]

IsPrimitive(value) == \E t \in {"str", "num", "bool", "null"} : Has(value, t)

\* typeof member === 'function'
IsFunction(member) == ~IsPrimitive(member)

\* isZodSchema(value)
IsZodSchema(value) ==
  /\ ~IsPrimitive(value)
  /\ Has(value, "_def")
  /\ Has(value, "parse")
  /\ IsFunction(value.parse)

\* isJoiSchema(value): a callable describe member
IsJoiSchema(value) ==
  /\ ~IsPrimitive(value)
  /\ Has(value, "describe")
  /\ IsFunction(value.describe)

\* A variant of resolveSchemaInput that tries the Joi shape before the Zod shape
ResolveSchemaInput_joiFirst(schema) ==
  IF IsJSString(schema) THEN ("$ref" :> schema)
  ELSE IF IsJoiSchema(schema) THEN JoiToOpenAPI(schema, <<>>)
       ELSE IF IsZodSchema(schema) THEN ZodToOpenAPI(schema["_def"], <<>>)
            ELSE schema

\* resolveSchemaInput(schema)
ResolveSchemaInput(schema) ==
  IF IsJSString(schema) THEN ("$ref" :> schema)
  ELSE IF IsZodSchema(schema) THEN ZodToOpenAPI(schema["_def"], <<>>)
       ELSE IF IsJoiSchema(schema) THEN JoiToOpenAPI(schema, <<>>)
            ELSE schema

\* a Zod schema object: _def and the methods of ZodType
ZodSchemaOf(schema) == ("_def" :> schema) @@ [parse |-> Callable("parse")]

\* the values a caller passes to the resolver: names of components, Zod and
\* Joi schemas (the self-referential ones left out: the resolver gives no
\* maxDepth), hand-written nodes, and objects with a part of the Zod or Joi
\* members or with the members of both
ResolverInputs ==
  LET zods == ZodInputs \ ZodCyclic
      jois == JoiInputs \ JoiCyclic
      nodes == { EmptyNode, [type |-> JStr("string")],
                 [type |-> JStr("object"), properties |-> [parse |-> [type |-> JStr("string")]]],
                 [type |-> JStr("string"), description |-> "doc"],
                 [anyOf |-> <<[type |-> JStr("string")], [type |-> JStr("null")]>>] }
  IN {JStr(n) : n \in {"", "User", "#/components/schemas/User"}}
       \cup {JNull, JNum(42), JBool(TRUE)}
       \cup {ZodSchemaOf(z) : z \in zods}
       \cup {JoiSchemaOf(d) : d \in jois}
       \cup nodes
       \cup {ZodSchemaOf(z) @@ JoiSchemaOf(d) :
               z \in {ZString(<<>>), ZLeaf("ZodAny")}, d \in {JDesc("number"), <<>>}}
       \cup {("_def" :> ZString(<<>>)) @@ f :
               f \in {<<>>, [parse |-> JStr("x")], [parse |-> JNull],
                      [describe |-> JStr("x")], JoiSchemaOf(JDesc("number")),
                      [parse |-> JStr("x"), describe |-> JDesc("boolean")]}}
       \cup {[parse |-> Callable("parse")], [parse |-> Callable("parse"), describe |-> JDesc("string")],
             [describe |-> JStr("about"), type |-> JStr("string")],
             [describe |-> JNull]}

\* a caller resolves one schema input; the resolver assigns to no member of it
ResolveSchemaInputCall ==
  /\ call = NoCall
  /\ \E schema \in ResolverInputs :
    /\ call' = [api |-> "resolveSchemaInput", schema |-> schema]
    /\ out' = ResolveSchemaInput(schema)
    /\ post' = [schema |-> schema]
    /\ UNCHANGED <<env, seen, builders, ops, before>>

SpecResolve == Init /\ [][ResolveSchemaInputCall]_vars

----------------------------------------------------------------------------
(* The document builder (src/src/builder/SpecBuilder.ts).  A SpecBuilder   *)
(* object is the record of its fields; builders holds every one created,   *)
(* and a builder is referred to by its position there.  A string the       *)
(* builder computes on (a path, a method) is the sequence of its           *)
(* characters.  An operation stored under a path and method is either      *)
(* [ref |-> k], the caller's raw object ops[k], or [val |-> operation], an *)
(* object nothing else refers to (the result of OperationBuilder.build()   *)
(* or of a merge).                                                         *)

LowerCase ==
  << "a", "b", "c", "d", "e", "f", "g", "h", "i", "j", "k", "l", "m",
     "n", "o", "p", "q", "r", "s", "t", "u", "v", "w", "x", "y", "z" >>
UpperCase ==
  << "A", "B", "C", "D", "E", "F", "G", "H", "I", "J", "K", "L", "M",
     "N", "O", "P", "Q", "R", "S", "T", "U", "V", "W", "X", "Y", "Z" >>
Letters == {LowerCase[i] : i \in DOMAIN LowerCase} \cup {UpperCase[i] : i \in DOMAIN UpperCase}
Digits == {"0", "1", "2", "3", "4", "5", "6", "7", "8", "9"}

ToUpperCase(c) ==
  IF \E i \in DOMAIN LowerCase : LowerCase[i] = c
  THEN UpperCase[CHOOSE i \in DOMAIN LowerCase : LowerCase[i] = c]
  ELSE c

ToLowerCase(c) ==
  IF \E i \in DOMAIN UpperCase : UpperCase[i] = c
  THEN LowerCase[CHOOSE i \in DOMAIN UpperCase : UpperCase[i] = c]
  ELSE c

\* the end of the match of [a-zA-Z0-9_]* that starts at position i
RECURSIVE IdentRunEnd(_, _)
IdentRunEnd(path, i) ==
  IF i <= Len(path) /\ path[i] \in Letters \cup Digits \cup {"_"}
  THEN IdentRunEnd(path, i + 1)
  ELSE i

\* path.replace(/:([a-zA-Z_][a-zA-Z0-9_]*)/g, '{$1}') from position i on
RECURSIVE NormalizeFrom(_, _)
NormalizeFrom(path, i) ==
  IF i > Len(path) THEN <<>>
  ELSE IF path[i] = ":" /\ i < Len(path) /\ path[i + 1] \in Letters \cup {"_"}
       THEN LET e == IdentRunEnd(path, i + 1)
            IN <<"{">> \o SubSeq(path, i + 1, e - 1) \o <<"}">> \o NormalizeFrom(path, e)
       ELSE <<path[i]>> \o NormalizeFrom(path, i + 1)

NormalizePath(path) == NormalizeFrom(path, 1)

\* str.split(sep) from position i on, `part` being the part read so far
RECURSIVE SplitFrom(_, _, _, _)
SplitFrom(str, sep, i, part) ==
  IF i > Len(str) THEN <<part>>
  ELSE IF str[i] = sep THEN <<part>> \o SplitFrom(str, sep, i + 1, <<>>)
       ELSE SplitFrom(str, sep, i + 1, Append(part, str[i]))

Capitalize(str) ==
  IF str = <<>> THEN str ELSE <<ToUpperCase(str[1])>> \o Tail(str)

\* the name a non-empty part of a path contributes to an operationId
OperationIdPart(part) ==
  IF part[1] = "{" /\ part[Len(part)] = "}"
  THEN <<"B", "y">> \o Capitalize(SubSeq(part, 2, Len(part) - 1))
  ELSE Capitalize(SelectSeq(part, LAMBDA c : c \in Letters \cup Digits))

RECURSIVE Flatten(_)
Flatten(parts) == IF parts = <<>> THEN <<>> ELSE Head(parts) \o Flatten(Tail(parts))

GenerateOperationId(path, method) ==
  LET parts == SelectSeq(SplitFrom(path, "/", 1, <<>>), LAMBDA part : part # <<>>)
  IN Join([i \in DOMAIN method |-> ToLowerCase(method[i])]
            \o Flatten([i \in DOMAIN parts |-> OperationIdPart(parts[i])]))

\* deepMerge(target, source) on paths objects: a path or a method only one
\* side has keeps that side's object; an operation both sides have is a new
\* object with the source's fields over the target's
OperationOf(slot) == IF Has(slot, "ref") THEN ops[slot.ref] ELSE slot.val

DeepMergePathItem(target, source) ==
  [m \in DOMAIN target \cup DOMAIN source |->
     IF m \notin DOMAIN source THEN target[m]
     ELSE IF m \notin DOMAIN target THEN source[m]
          ELSE [val |-> Spread(OperationOf(target[m]), OperationOf(source[m]))]]

DeepMergePaths(target, source) ==
  [p \in DOMAIN target \cup DOMAIN source |->
     IF p \notin DOMAIN source THEN target[p]
     ELSE IF p \notin DOMAIN target THEN source[p]
          ELSE DeepMergePathItem(target[p], source[p])]

\* ComponentsBuilder (src/unnamed/part_007): every method returns a new
\* ComponentsBuilder around a new components object
EmptyComponents == <<>>

ComponentsWith(components, section, name, value) ==
  Assign(components, section,
         Assign(IF Has(components, section) THEN components[section] ELSE <<>>, name, value))

ComponentsSchema(components, name, schema) ==
  ComponentsWith(components, "schemas", name, ResolveSchemaInput(schema))

ComponentsBearerAuth(components, name) ==
  ComponentsWith(components, "securitySchemes", name,
                 [type |-> "http", scheme |-> "bearer", bearerFormat |-> "JWT",
                  description |->
                    "JWT authentication token. Pass as 'Authorization: Bearer <token>'."])

ComponentsApiKey(components, name, header) ==
  ComponentsWith(components, "securitySchemes", name,
                 [type |-> "apiKey", in |-> "header", name |-> header,
                  description |-> "API key passed in the '" \o header \o "' header."])

\* new SpecBuilder(options)
NewBuilder(options) ==
  [ info |-> <<>>, servers |-> <<>>, paths |-> <<>>, tags |-> <<>>,
    globalSecurity |-> <<>>, componentsBuilder |-> EmptyComponents,
    options |-> [autoOperationId |->
                   IF Has(options, "autoOperationId") THEN options.autoOperationId ELSE TRUE] ]

\* this._clone(updates) on builder n: the builders after it, the new one last
Clone(n, updates) == Append(builders, updates @@ builders[n])

\* build() of builder b with the operations as they are in `heap`
Build(b, heap) ==
  IF ~Has(b.info, "title") \/ b.info.title = "" THEN [throws |-> "title is required"]
  ELSE IF ~Has(b.info, "version") \/ b.info.version = "" THEN [throws |-> "version is required"]
  ELSE [openapi |-> "3.1.0", info |-> b.info]
       @@ (IF Len(b.servers) > 0 THEN [servers |-> b.servers] ELSE <<>>)
       @@ (IF DOMAIN b.paths # {}
           THEN [paths |-> [p \in DOMAIN b.paths |->
                   [m \in DOMAIN b.paths[p] |->
                      LET slot == b.paths[p][m]
                      IN IF Has(slot, "ref") THEN heap[slot.ref] ELSE slot.val]]]
           ELSE <<>>)
       @@ (IF DOMAIN b.componentsBuilder # {} THEN [components |-> b.componentsBuilder] ELSE <<>>)
       @@ (IF Len(b.globalSecurity) > 0 THEN [security |-> b.globalSecurity] ELSE <<>>)
       @@ (IF Len(b.tags) > 0 THEN [tags |-> b.tags] ELSE <<>>)

\* the builders the caller starts from: new SpecBuilder(), then .title('API'),
\* then .version('1.0.0') on the last
BaseBuilders ==
  LET b0 == NewBuilder(<<>>)
      b1 == [info |-> [title |-> "API"]] @@ b0
      b2 == [info |-> [title |-> "API", version |-> "1.0.0"]] @@ b0
  IN <<b0, b1, b2>>

\* calls made on the builders in one behaviour: at most MaxCalls
MaxCalls == 2
MoreCalls == Len(builders) < Len(BaseBuilders) + MaxCalls

\* the paths and methods the caller uses
PathInputs ==
  { <<"/", "a">>,
    <<"/", "a", "/", ":", "i", "d">>,
    <<"/", "a", "/", "{", "i", "d", "}">> }
MethodInputs == { <<"g", "e", "t">>, <<"p", "o", "s", "t">> }

\* the operations the caller adds: its raw objects, and OperationBuilders
\* building an operation without and with an operationId
OperationInputs ==
  {[raw |-> k] : k \in DOMAIN RawOperations}
    \cup {[built |-> [responses |-> "ok"] @@ o] : o \in {<<>>, [operationId |-> "listA"]}}

\* the paths objects the caller merges in, holding its raw operations
PathsInputs ==
  { (<<"/", "a">> :> (<<"g", "e", "t">> :> [ref |-> 1])),
    (<<"/", "a">> :> (<<"g", "e", "t">> :> [ref |-> 2]))
      @@ (<<"/", "b">> :> (<<"p", "o", "s", "t">> :> [ref |-> 1])) }

\* a fluent call on builder n: the receiver's document is recorded first
Fluent(api, n, after) ==
  /\ before' = Build(builders[n], ops)
  /\ call' = [api |-> api, receiver |-> n]
  /\ builders' = after
  /\ out' = [builder |-> Len(after)]
  /\ UNCHANGED <<post, env, seen>>

SpecBuilderNew ==
  /\ MoreCalls
  /\ \E options \in {<<>>, [autoOperationId |-> FALSE]} :
    /\ builders' = Append(builders, NewBuilder(options))
    /\ call' = [api |-> "new SpecBuilder", options |-> options]
    /\ out' = [builder |-> Len(builders) + 1]
    /\ UNCHANGED <<post, env, seen, ops, before>>

SpecBuilderTitle ==
  /\ MoreCalls
  /\ \E n \in DOMAIN builders, title \in {"API"} :
    /\ Fluent("title", n, Clone(n, [info |-> Assign(builders[n].info, "title", title)]))
    /\ UNCHANGED ops

SpecBuilderVersion ==
  /\ MoreCalls
  /\ \E n \in DOMAIN builders, version \in {"1.0.0"} :
    /\ Fluent("version", n, Clone(n, [info |-> Assign(builders[n].info, "version", version)]))
    /\ UNCHANGED ops

SpecBuilderServer ==
  /\ MoreCalls
  /\ \E n \in DOMAIN builders, description \in {"", "Production"} :
    LET s == [url |-> "https://api.example.com"]
               @@ (IF description # "" THEN [description |-> description] ELSE <<>>)
    IN /\ Fluent("server", n, Clone(n, [servers |-> Append(builders[n].servers, s)]))
       /\ UNCHANGED ops

SpecBuilderAdd ==
  /\ MoreCalls
  /\ \E n \in DOMAIN builders, path \in PathInputs, method \in MethodInputs,
        operation \in OperationInputs :
    LET this == builders[n]
        normalizedPath == NormalizePath(path)
        op == IF Has(operation, "built") THEN operation.built ELSE ops[operation.raw]
        generate == (~Has(op, "operationId") \/ op.operationId = "")
                      /\ this.options.autoOperationId
        assigned == IF generate
                    THEN Assign(op, "operationId", GenerateOperationId(normalizedPath, method))
                    ELSE op
        slot == IF Has(operation, "built") THEN [val |-> assigned] ELSE [ref |-> operation.raw]
        heap == IF Has(operation, "built") THEN ops
                ELSE [ops EXCEPT ![operation.raw] = assigned]
        currentPathItem == IF normalizedPath \in DOMAIN this.paths
                           THEN this.paths[normalizedPath] ELSE <<>>
        updatedPathItem == Assign(currentPathItem, method, slot)
    IN /\ Fluent("add", n, Clone(n, [paths |-> Assign(this.paths, normalizedPath, updatedPathItem)]))
       /\ ops' = heap

SpecBuilderPaths ==
  /\ MoreCalls
  /\ \E n \in DOMAIN builders, paths \in PathsInputs :
    /\ Fluent("paths", n, Clone(n, [paths |-> DeepMergePaths(builders[n].paths, paths)]))
    /\ UNCHANGED ops

SpecBuilderTag ==
  /\ MoreCalls
  /\ \E n \in DOMAIN builders, name \in {"Users"}, description \in {"", "People"} :
    LET this == builders[n]
        tag == [name |-> name] @@ (IF description # "" THEN [description |-> description] ELSE <<>>)
        existing == {i \in DOMAIN this.tags : this.tags[i].name = name}
        tags == IF existing # {}
                THEN [this.tags EXCEPT ![CHOOSE i \in existing : \A j \in existing : i <= j] = tag]
                ELSE Append(this.tags, tag)
    IN /\ Fluent("tag", n, Clone(n, [tags |-> tags]))
       /\ UNCHANGED ops

SpecBuilderSecurity ==
  /\ MoreCalls
  /\ \E n \in DOMAIN builders, requirement \in {[oauth |-> <<"read">>]} :
    /\ Fluent("security", n,
              Clone(n, [globalSecurity |-> Append(builders[n].globalSecurity, requirement)]))
    /\ UNCHANGED ops

SpecBuilderBearerAuth ==
  /\ MoreCalls
  /\ \E n \in DOMAIN builders, applyGlobally \in BOOLEAN :
    LET this == builders[n]
        cb == ComponentsBearerAuth(this.componentsBuilder, "bearerAuth")
        security == IF applyGlobally
                    THEN Append(this.globalSecurity, [bearerAuth |-> <<>>])
                    ELSE this.globalSecurity
    IN /\ Fluent("bearerAuth", n,
                 Clone(n, [globalSecurity |-> security, componentsBuilder |-> cb]))
       /\ UNCHANGED ops

SpecBuilderApiKeyAuth ==
  /\ MoreCalls
  /\ \E n \in DOMAIN builders, applyGlobally \in BOOLEAN :
    LET this == builders[n]
        cb == ComponentsApiKey(this.componentsBuilder, "apiKey", "X-API-Key")
        security == IF applyGlobally
                    THEN Append(this.globalSecurity, [apiKey |-> <<>>])
                    ELSE this.globalSecurity
    IN /\ Fluent("apiKeyAuth", n,
                 Clone(n, [globalSecurity |-> security, componentsBuilder |-> cb]))
       /\ UNCHANGED ops

SpecBuilderComponent ==
  /\ MoreCalls
  /\ \E n \in DOMAIN builders,
        schema \in {JStr("#/components/schemas/Other"), [type |-> JStr("object")],
                    ZodSchemaOf(ZString(<<>>))} :
    LET cb == ComponentsSchema(builders[n].componentsBuilder, "User", schema)
    IN /\ Fluent("component", n, Clone(n, [componentsBuilder |-> cb]))
       /\ UNCHANGED ops

SpecBuilderNext ==
  \/ SpecBuilderNew \/ SpecBuilderTitle \/ SpecBuilderVersion \/ SpecBuilderServer
  \/ SpecBuilderAdd \/ SpecBuilderPaths \/ SpecBuilderTag \/ SpecBuilderSecurity
  \/ SpecBuilderBearerAuth \/ SpecBuilderApiKeyAuth \/ SpecBuilderComponent

SpecBuilderInit ==
  /\ call = NoCall
  /\ post = <<>>
  /\ out = <<>>
  /\ env = 0
  /\ seen = <<>>
  /\ builders = BaseBuilders
  /\ ops = RawOperations
  /\ before = <<>>

SpecBuilderSpec == SpecBuilderInit /\ [][SpecBuilderNext]_vars

----------------------------------------------------------------------------
(* Properties.  The observer's view of the state: the call made, its       *)
(* resolved options and the description a Joi call converts.               *)

Called == call.api # "none"
IsZodCall == call.api = "zodToOpenAPI"
IsJoiCall == call.api \in {"joiToOpenAPI", "joiDescriptionToOpenAPI"}
CallOpts == ResolveOptions(call.options)
CallDesc == IF call.api = "joiToOpenAPI" THEN call.schema.describe ELSE call.schema

Max(a, b) == IF a >= b THEN a ELSE b

\* the depth arguments the guard is tried with
DepthsTried == 0..(MaxMaxDepth + 2) \cup {DefaultMaxDepth, DefaultMaxDepth + 1}

\* the converter of the call's dialect, called on the call's input at depth d
ConvertAtDepth(opts, d) ==
  IF IsZodCall THEN ConvertZodType(call.schema, opts, d)
  ELSE ConvertJoiDescription(CallDesc, opts, d)

\* C1: in both converters a call whose depth argument is greater than
\* opts.maxDepth returns the empty node {}, whatever the input is: no type, no
\* description, no other field.  In particular the entry call (depth 0) returns
\* {} when maxDepth is negative.
C1_DepthGuardReturnsEmpty ==
  Called =>
    /\ \A d \in DepthsTried :
         d > CallOpts.maxDepth => ConvertAtDepth(CallOpts, d) = EmptyNode
    /\ (0 > CallOpts.maxDepth => out = EmptyNode)

\* a described string, descriptions on, cut off at the entry call
C1_Witness ==
  /\ IsZodCall
  /\ ZodTypeNameOf(call.schema) = "ZodString"
  /\ Has(call.schema, "description") /\ call.schema.description = "doc"
  /\ CallOpts.includeDescriptions
  /\ CallOpts.maxDepth < 0
  /\ out = EmptyNode

\* the depths of all the converter calls the call of the state made
CallDepths ==
  IF IsZodCall THEN ZodCallDepths(call.schema, CallOpts, 0)
  ELSE JoiCallDepths(CallDesc, CallOpts, 0)

\* C2 as stated: no converter call is made with a depth greater than
\* maxDepth + 1, for every finite maxDepth.
C2_AsStated == Called => \A d \in CallDepths : d <= CallOpts.maxDepth + 1

\* C2: every conversion makes finitely many converter calls; none has a depth
\* greater than max(0, maxDepth + 1) and no chain of nested calls is longer
\* than max(1, maxDepth + 2), cyclic object graphs included.  (The entry call
\* has depth 0 whatever maxDepth is, so for maxDepth < -1 it is deeper than
\* maxDepth + 1.)
C2_CallDepthBounded ==
  Called =>
    \A d \in CallDepths :
      /\ d <= Max(0, CallOpts.maxDepth + 1)
      /\ d + 1 <= Max(1, CallOpts.maxDepth + 2)

\* a self-referential schema whose conversion is cut exactly at maxDepth + 1
C2_Witness ==
  /\ Called
  /\ (IF IsZodCall THEN call.schema \in ZodCyclic ELSE CallDesc \in JoiCyclic)
  /\ CallOpts.maxDepth >= 1
  /\ (CallOpts.maxDepth + 1) \in CallDepths

\* the fields of a node that are its own: a field holding nested nodes is
\* reduced to its shape (the property names, the number of branches, the
\* fact that there is a node)
OwnPart(node) ==
  [f \in DOMAIN node |->
     CASE f = "properties" -> [keys |-> DOMAIN node.properties]
       [] f \in {"anyOf", "allOf", "prefixItems"} -> [len |-> Len(node[f])]
       [] f \in {"items", "additionalProperties"} ->
            IF Has(node[f], "bool") THEN node[f] ELSE [node |-> TRUE]
       [] OTHER -> node[f]]

\* the call's resolved options with another maxDepth
WithMaxDepth(m) == [CallOpts EXCEPT !.maxDepth = m]

\* the depths of the calls a converter call on the state's input at depth d leads to
CallDepthsFrom(opts, d) ==
  IF IsZodCall THEN ZodCallDepths(call.schema, opts, d)
  ELSE JoiCallDepths(CallDesc, opts, d)

\* the node kinds that copy the fields of their inner conversion into themselves
\* or branch on them, instead of holding the inner node as a child
MergesInner ==
  IF IsZodCall
  THEN ZodTypeNameOf(call.schema) \in
         {"ZodOptional", "ZodNullable", "ZodDefault", "ZodReadonly", "ZodCatch",
          "ZodBranded", "ZodPipeline", "ZodEffects"}
  ELSE /\ Has(CallDesc, "type") /\ CallDesc.type = "alternatives"
       /\ ~JoiIsEnum(CallDesc)
       /\ Len(JoiMatchSubSchemas(IF Has(CallDesc, "matches")
                                 THEN CallDesc.matches ELSE <<>>)) = 1

\* the larger maxDepth values an output is compared under
LargerMaxDepths(m) == (m + 1)..(MaxMaxDepth + 2)

\* C3 as stated: with maxDepth raised from m1 to m2, every node produced at
\* depth <= m1 (here the root, depth 0) keeps exactly the same own fields.
C3_AsStated ==
  (Called /\ Has(call.options, "maxDepth") /\ call.options.maxDepth >= 0) =>
    \A m2 \in LargerMaxDepths(call.options.maxDepth) :
      OwnPart(ConvertAtDepth(WithMaxDepth(m2), 0)) = OwnPart(out)

\* C3: maxDepth decides only where the recursion is cut.  For m1 < m2 and a
\* node produced at a depth d <= m1: (a) if under m1 no call below it reaches
\* depth m1 + 1, the node is the same under m1 and m2; (b) if the node holds
\* its nested conversions as children (or has none), its own fields are the
\* same under m1 and m2.  A node that merges its inner conversion into itself
\* (optional, nullable, default, readonly, catch, branded, pipeline, effects;
\* Joi alternatives of one schema) is excluded from (b): its fields change at
\* the cutoff.
C3_MaxDepthOnlyCuts ==
  (Called /\ Has(call.options, "maxDepth") /\ call.options.maxDepth >= 0) =>
    LET m1 == call.options.maxDepth IN
    \A m2 \in LargerMaxDepths(m1) : \A d \in 0..m1 :
      LET o1 == ConvertAtDepth(CallOpts, d)
          o2 == ConvertAtDepth(WithMaxDepth(m2), d)
      IN /\ (\A e \in CallDepthsFrom(CallOpts, d) : e <= m1) => o2 = o1
         /\ ~MergesInner => OwnPart(o2) = OwnPart(o1)

\* an array of strings under maxDepth 0: its items are cut to {}, its own
\* fields are those it has under maxDepth 1
C3_Witness ==
  /\ IsZodCall
  /\ ZodTypeNameOf(call.schema) = "ZodArray"
  /\ Has(call.options, "maxDepth") /\ call.options.maxDepth = 0
  /\ Has(out, "items") /\ out.items = EmptyNode
  /\ ConvertAtDepth(WithMaxDepth(1), 0).items = [type |-> JStr("string")]
  /\ OwnPart(ConvertAtDepth(WithMaxDepth(1), 0)) = OwnPart(out)

\* the names in a node's required list, and the names of its properties
RequiredNames(node) ==
  IF Has(node, "required") THEN {node.required[i] : i \in DOMAIN node.required} ELSE {}
PropertyNames(node) == IF Has(node, "properties") THEN DOMAIN node.properties ELSE {}

\* the declared fields of the call's object schema (Zod) or description (Joi)
CallShape == IF Has(call.schema, "shape") THEN call.schema.shape ELSE <<>>
CallKeys == IF Has(CallDesc, "keys") THEN CallDesc.keys ELSE <<>>

\* C4: for every Zod object schema converted (not cut by the depth guard), a
\* field name is in the result's required list if and only if the field's
\* schema is neither a ZodOptional nor a ZodDefault, and every declared field
\* is a key of properties.
C4_ZodRequiredIffNotOptional ==
  (IsZodCall /\ ZodTypeNameOf(call.schema) = "ZodObject" /\ CallOpts.maxDepth >= 0) =>
    /\ \A i \in DOMAIN CallShape :
         (CallShape[i].key \in RequiredNames(out)) <=>
           (ZodTypeNameOf(ZodDeref(CallShape[i].schema)) \notin {"ZodOptional", "ZodDefault"})
    /\ RequiredNames(out) \subseteq {CallShape[i].key : i \in DOMAIN CallShape}
    /\ PropertyNames(out) = {CallShape[i].key : i \in DOMAIN CallShape}

\* an object with a default-of field a and a plain field b: only b is required
C4_Witness ==
  /\ IsZodCall /\ ZodTypeNameOf(call.schema) = "ZodObject"
  /\ Len(CallShape) = 2
  /\ ZodTypeNameOf(CallShape[1].schema) = "ZodDefault"
  /\ ZodTypeNameOf(CallShape[2].schema) = "ZodString"
  /\ Has(out, "required") /\ out.required = <<"b">>
  /\ PropertyNames(out) = {"a", "b"}

RECURSIVE ZodHasImpureDefault(_)
ZodHasImpureDefault(schema) ==
  /\ ~Has(schema, "link")
  /\ \/ Has(schema, "defaultValue") /\ Has(schema.defaultValue, "impure")
     \/ \E f \in DOMAIN schema \cap {"innerType", "type", "valueType", "in", "schema",
                                      "catchall", "left", "right", "rest"} :
          ZodHasImpureDefault(schema[f])
     \/ \E f \in DOMAIN schema \cap {"options", "items"} :
          \E i \in DOMAIN schema[f] : ZodHasImpureDefault(schema[f][i])
     \/ Has(schema, "shape") /\
          \E i \in DOMAIN schema.shape : ZodHasImpureDefault(schema.shape[i].schema)

\* the call of the state is a later call with the arguments of the kept one
RepeatsKeptCall ==
  /\ seen # <<>>
  /\ seen.later >= 1
  /\ seen.call.api = call.api
  /\ seen.call = call

ZodKnownTags ==
  {"ZodString", "ZodNumber", "ZodBigInt", "ZodBoolean", "ZodNull", "ZodUndefined",
   "ZodLiteral", "ZodEnum", "ZodNativeEnum", "ZodObject", "ZodArray", "ZodTuple",
   "ZodUnion", "ZodDiscriminatedUnion", "ZodIntersection", "ZodOptional", "ZodNullable",
   "ZodDefault", "ZodCatch", "ZodBranded", "ZodReadonly", "ZodRecord", "ZodMap", "ZodSet",
   "ZodFunction", "ZodLazy", "ZodPromise", "ZodUnknown", "ZodAny", "ZodNever", "ZodVoid",
   "ZodDate", "ZodSymbol", "ZodPipeline", "ZodEffects"}
JoiKnownTypes ==
  {"string", "number", "boolean", "object", "array", "alternatives", "date", "binary", "any"}
ZodKnownStringKinds ==
  {"min", "max", "length", "regex", "email", "url", "uuid", "datetime", "date", "time",
   "duration", "base64", "startsWith", "endsWith", "includes"}
ZodKnownNumberKinds == {"min", "max", "multipleOf", "int"}
JoiKnownStringRules ==
  {"min", "max", "length", "email", "uri", "guid", "uuid", "isoDate", "isoDuration",
   "hostname", "ip", "pattern", "regex", "alphanum", "token", "hex", "base64", "dataUri"}
JoiKnownNumberRules == {"min", "max", "greater", "less", "multiple", "integer"}
JoiKnownArrayRules == {"min", "max", "length", "unique"}

UnknownZodTag == IsZodCall /\ ZodTypeNameOf(call.schema) \notin ZodKnownTags
UnknownJoiType ==
  IsJoiCall /\ (Has(CallDesc, "type") => CallDesc.type \notin JoiKnownTypes)

\* the call's input without the checks or rules that write no field, the
\* unknown ones among them
KnownChecksOnly ==
  LET tag == ZodTypeNameOf(call.schema)
      known == IF tag = "ZodString" THEN ZodKnownStringKinds ELSE ZodKnownNumberKinds
      checks == call.schema.checks
  IN IF tag \in {"ZodString", "ZodNumber"} /\ Has(call.schema, "checks")
     THEN [call.schema EXCEPT
             !.checks = FilterIdx(checks, {i \in DOMAIN checks : checks[i].kind \in known}, 1)]
     ELSE call.schema
KnownRulesOnly ==
  LET type == IF Has(CallDesc, "type") THEN CallDesc.type ELSE ""
      known == CASE type = "string" -> JoiKnownStringRules
                 [] type = "number" -> JoiKnownNumberRules
                 [] type = "array" -> JoiKnownArrayRules
                 [] OTHER -> {"pattern"}
      rules == CallDesc.rules
  IN IF Has(CallDesc, "rules")
     THEN [CallDesc EXCEPT
             !.rules = FilterIdx(rules, {i \in DOMAIN rules : rules[i].name \in known}, 1)]
     ELSE CallDesc

\* C8 as stated: an unknown Zod type tag or Joi description.type yields a node
\* with no type, composition or constraint field.
C8_AsStated ==
  (Called /\ CallOpts.maxDepth >= 0 /\ (UnknownZodTag \/ UnknownJoiType)) =>
    DOMAIN out \subseteq {"description", "default"}

\* C8: every conversion of a well-formed input returns a node.  An unknown Zod
\* type tag yields the node holding at most the description; an unknown Joi
\* description.type contributes nothing to the node, which is then the
\* metadata (description, default), turned into an enum when flags.only comes
\* with an allow list and wrapped as anyOf: [metadata, {type: 'null'}] when
\* allow contains null and the metadata is not empty.  A check or rule the
\* converter has no arm for is ignored: the node is that of the input without it.
C8_UnknownFallsBack ==
  (Called /\ CallOpts.maxDepth >= 0) =>
    /\ UnknownZodTag =>
         /\ DOMAIN out \subseteq {"description"}
         /\ out = ZodBaseResult(call.schema, CallOpts)
    /\ UnknownJoiType =>
         LET meta == JoiBaseResult(CallDesc, CallOpts)
             hasNull == Has(CallDesc, "allow") /\ Includes(CallDesc.allow, JNull)
         IN IF JoiIsEnum(CallDesc)
            THEN /\ DOMAIN out \subseteq {"description", "default", "enum"}
                 /\ out.enum = CallDesc.allow
            ELSE IF hasNull /\ DOMAIN meta # {}
                 THEN out = [anyOf |-> <<meta, [type |-> JStr("null")]>>]
                 ELSE out = meta /\ DOMAIN out \subseteq {"description", "default"}
    /\ IsZodCall => out = ConvertZodType(KnownChecksOnly, CallOpts, 0)
    /\ IsJoiCall => out = ConvertJoiDescription(KnownRulesOnly, CallOpts, 0)

\* a description of the unknown type 'link' with a description text and an
\* allowed null: the node is a two-branch anyOf
C8_Witness ==
  /\ IsJoiCall
  /\ Has(CallDesc, "type") /\ CallDesc.type = "link"
  /\ UnknownJoiType
  /\ out = [anyOf |-> <<[description |-> "doc"], [type |-> JStr("null")]>>]

\* the node {type: 'null'}
NullNode == [type |-> JStr("null")]

\* a ZodNullable schema is being converted; the conversion of its inner schema
ZodNullableCall ==
  IsZodCall /\ ZodTypeNameOf(call.schema) = "ZodNullable" /\ CallOpts.maxDepth >= 0
NullableInner == ConvertZodType(ZodDeref(call.schema.innerType), CallOpts, 1)

\* the description the nullable wrapper itself carries into the node, if any
NullableOwn ==
  IF /\ CallOpts.includeDescriptions
     /\ Has(call.schema, "description") /\ call.schema.description # ""
  THEN [description |-> call.schema.description]
  ELSE EmptyNode

\* C9 as stated: nullable-of an inner node with a single scalar type T is the
\* inner node with type replaced by [T, 'null']; in every other case it is
\* anyOf: [inner, {type: 'null'}].
C9_AsStated ==
  ZodNullableCall =>
    IF Has(NullableInner, "type") /\ IsJSString(NullableInner.type)
    THEN out = [NullableInner EXCEPT !.type = [arr |-> <<NullableInner.type.str, "null">>]]
    ELSE out = [anyOf |-> <<NullableInner, NullNode>>]

\* C9: nullable-of an inner node with a single scalar type T has the fields of
\* the inner node with type replaced by [T, 'null']; in every other case (no
\* type, or a type set) it has anyOf = [inner, {type: 'null'}].  Besides these
\* the node has the wrapper's own description when the wrapper has one and
\* descriptions are included, and nothing else; in the first case a
\* description of the inner node takes precedence over the wrapper's.
C9_ZodNullable ==
  ZodNullableCall =>
    IF Has(NullableInner, "type") /\ IsJSString(NullableInner.type)
    THEN /\ DOMAIN out = DOMAIN NullableInner \cup DOMAIN NullableOwn
         /\ out.type = [arr |-> <<NullableInner.type.str, "null">>]
         /\ \A f \in DOMAIN NullableInner \ {"type"} : out[f] = NullableInner[f]
         /\ ~Has(NullableInner, "description") =>
              \A f \in DOMAIN NullableOwn : out[f] = NullableOwn[f]
    ELSE /\ DOMAIN out = {"anyOf"} \cup DOMAIN NullableOwn
         /\ out.anyOf = <<NullableInner, NullNode>>
         /\ \A f \in DOMAIN NullableOwn : out[f] = NullableOwn[f]

\* a described nullable-of a plain string: the type set and the wrapper's description
C9_Witness ==
  /\ ZodNullableCall
  /\ NullableInner = [type |-> JStr("string")]
  /\ out = [description |-> "wrap", type |-> [arr |-> <<"string", "null">>]]

\* a Joi description that allows null and is not an enum is being converted;
\* the node computed for it before the nullable step
JoiNullableCall ==
  /\ IsJoiCall /\ CallOpts.maxDepth >= 0
  /\ Has(CallDesc, "allow") /\ Includes(CallDesc.allow, JNull)
  /\ ~JoiIsEnum(CallDesc)
JoiComputed == Spread(JoiBaseResult(CallDesc, CallOpts), JoiTypeSchema(CallDesc, CallOpts, 0))

\* C10: when allow contains null and the node is not an enum, a computed node
\* whose type is a single scalar string T gets type [T, 'null']; a computed
\* node with no type is wrapped as anyOf: [node, {type: 'null'}], except that
\* a completely empty one is returned as {} without the wrap.
C10_JoiNullable ==
  JoiNullableCall =>
    /\ (Has(JoiComputed, "type") /\ IsJSString(JoiComputed.type)) =>
         out = [JoiComputed EXCEPT !.type = [arr |-> <<JoiComputed.type.str, "null">>]]
    /\ (~Has(JoiComputed, "type") /\ DOMAIN JoiComputed # {}) =>
         out = [anyOf |-> <<JoiComputed, NullNode>>]
    /\ DOMAIN JoiComputed = {} => out = EmptyNode

\* described alternatives of two schemas that allow null: the anyOf of the two
\* is wrapped, with its description, in an anyOf with {type: 'null'}
C10_Witness ==
  /\ JoiNullableCall
  /\ Has(CallDesc, "type") /\ CallDesc.type = "alternatives"
  /\ Has(out, "anyOf") /\ Len(out.anyOf) = 2
  /\ out.anyOf[2] = NullNode
  /\ Has(out.anyOf[1], "anyOf") /\ Has(out.anyOf[1], "description")

\* a Joi description with flags.only and a non-empty allow list is being converted
JoiEnumCall ==
  /\ IsJoiCall /\ CallOpts.maxDepth >= 0
  /\ Has(JoiFlags(CallDesc), "only") /\ JoiFlags(CallDesc).only
  /\ Has(CallDesc, "allow") /\ Len(CallDesc.allow) > 0

\* the metadata of the call's description that the options let through
CallJoiMeta ==
  LET flags == JoiFlags(CallDesc)
  IN [f \in {g \in {"description", "default"} :
               /\ Has(flags, g)
               /\ (g = "description" => CallOpts.includeDescriptions /\ flags.description # "")
               /\ (g = "default" => CallOpts.includeDefaults)} |-> flags[f]]

\* C11: whenever flags.only is true and allow is a non-empty list, the node's
\* enum is the allow list in order (null included), the node has no field of
\* the type dispatch (no type, constraint or composition field, whatever
\* description.type, rules, keys or matches say), and it keeps the
\* description and default collected before.
C11_JoiEnumShortCircuit ==
  JoiEnumCall =>
    /\ Has(out, "enum") /\ out.enum = CallDesc.allow
    /\ DOMAIN out = {"enum"} \cup DOMAIN CallJoiMeta
    /\ \A f \in DOMAIN CallJoiMeta : out[f] = CallJoiMeta[f]

\* a described string with a min rule, restricted to 'a' and null
C11_Witness ==
  /\ JoiEnumCall
  /\ CallDesc.type = "string" /\ Has(CallDesc, "rules")
  /\ out = [description |-> "doc", enum |-> <<JStr("a"), JNull>>]

\* a node with the given field deleted from it and from every node nested in it
RECURSIVE StripField(_, _)
StripField(node, field) ==
  [f \in DOMAIN node \ {field} |->
     CASE f = "properties" ->
            [k \in DOMAIN node.properties |-> StripField(node.properties[k], field)]
       [] f \in {"anyOf", "allOf", "prefixItems"} ->
            [i \in DOMAIN node[f] |-> StripField(node[f][i], field)]
       [] f \in {"items", "additionalProperties", "not"} ->
            IF Has(node[f], "bool") THEN node[f] ELSE StripField(node[f], field)
       [] OTHER -> node[f]]

\* the call's conversion again, with one toggle set
WithDescriptions(b) == ConvertAtDepth([CallOpts EXCEPT !.includeDescriptions = b], 0)
WithDefaults(b) == ConvertAtDepth([CallOpts EXCEPT !.includeDefaults = b], 0)

\* the two toggles act as a deletion of their field on the call's output
TogglesOnlyDelete ==
  /\ StripField(WithDescriptions(TRUE), "description") = WithDescriptions(FALSE)
  /\ StripField(WithDefaults(TRUE), "default") = WithDefaults(FALSE)

\* a description, nested ones included, that allows null (without flags.only)
\* and whose node before the nullable step is empty when both toggles are
\* off: whether the step wraps it in anyOf depends on its metadata alone
RECURSIVE JoiFoldsOnMetadata(_, _, _)
JoiFoldsOnMetadata(desc, opts, depth) ==
  /\ ~DepthExceeded(opts, depth)
  /\ ~JoiIsEnum(desc)
  /\ \/ /\ Has(desc, "allow") /\ Includes(desc.allow, JNull)
        /\ DOMAIN Spread(JoiBaseResult(desc, opts), JoiTypeSchema(desc, opts, depth)) = {}
     \/ LET sub == JoiSubSchemas(desc)
        IN \E i \in DOMAIN sub : JoiFoldsOnMetadata(JoiDeref(sub[i]), opts, depth + 1)

TogglesOff == [CallOpts EXCEPT !.includeDescriptions = FALSE, !.includeDefaults = FALSE]

\* C12 as stated: for every input of either dialect the output with a toggle
\* off is the output with the toggle on after deleting every description
\* (resp. default) field.
C12_AsStated == Called => TogglesOnlyDelete

\* C12: the output with includeDescriptions (includeDefaults) off is the
\* output with it on after deleting every description (default) field, for
\* every Zod input, and for every Joi input in which no description that
\* allows null has an otherwise empty node.  (For such a description the
\* nullable step wraps the node in anyOf when the metadata is there and
\* returns {} when it is not.)
C12_TogglesOnlyDelete ==
  (Called /\ (IsZodCall \/ ~JoiFoldsOnMetadata(CallDesc, TogglesOff, 0))) =>
    TogglesOnlyDelete

\* a nullable Joi object with a description, converted with descriptions off
C12_Witness ==
  /\ IsJoiCall /\ Has(CallDesc, "type") /\ CallDesc.type = "object"
  /\ Has(CallDesc, "allow") /\ Has(JoiFlags(CallDesc), "description")
  /\ ~CallOpts.includeDescriptions
  /\ ~JoiFoldsOnMetadata(CallDesc, TogglesOff, 0)
  /\ Has(WithDescriptions(TRUE), "description")
  /\ out = StripField(WithDescriptions(TRUE), "description")

\* a Zod schema of the given tags is being converted (the depth guard passed)
ZodCallOf(tags) ==
  IsZodCall /\ ZodTypeNameOf(call.schema) \in tags /\ CallOpts.maxDepth >= 0

\* the conversion of a schema nested directly in the call's schema
ZodChild(ref) == ConvertZodType(ZodDeref(ref), CallOpts, 1)

\* the fixed slots of the call's tuple schema
CallTupleItems == IF Has(call.schema, "items") THEN call.schema.items ELSE <<>>

\* C13: a tuple with n fixed slots converts to type array with prefixItems of
\* length n, slot i being the conversion of slot i, and minItems = n; with no
\* rest schema items is false and maxItems = n; with a rest schema items is
\* the conversion of the rest schema and there is no maxItems.
C13_ZodTuple ==
  ZodCallOf({"ZodTuple"}) =>
    LET n == Len(CallTupleItems) IN
    /\ {"type", "prefixItems", "items", "minItems"} \subseteq DOMAIN out
    /\ out.type = JStr("array")
    /\ Len(out.prefixItems) = n
    /\ \A i \in 1..n : out.prefixItems[i] = ZodChild(CallTupleItems[i])
    /\ out.minItems = n
    /\ IF Has(call.schema, "rest")
       THEN out.items = ZodChild(call.schema.rest) /\ ~Has(out, "maxItems")
       ELSE out.items = JBool(FALSE) /\ Has(out, "maxItems") /\ out.maxItems = n

\* a tuple of two slots with a rest schema of strings
C13_Witness ==
  /\ ZodCallOf({"ZodTuple"})
  /\ Len(CallTupleItems) = 2 /\ Has(call.schema, "rest")
  /\ Len(out.prefixItems) = 2
  /\ out.prefixItems[2] = [type |-> JStr("null")]
  /\ out.items = [type |-> JStr("string")]
  /\ out.minItems = 2 /\ ~Has(out, "maxItems")

\* C14: a union or discriminated union with k options converts to anyOf with
\* exactly k branches, branch i being the conversion of option i at depth + 1,
\* in the original order, and no allOf; an intersection converts to allOf with
\* exactly the two branches [convert(left), convert(right)], and no anyOf.
C14_ZodComposition ==
  /\ ZodCallOf({"ZodUnion", "ZodDiscriminatedUnion"}) =>
       /\ Has(out, "anyOf") /\ ~Has(out, "allOf")
       /\ Len(out.anyOf) = Len(call.schema.options)
       /\ \A i \in DOMAIN call.schema.options :
            out.anyOf[i] = ZodChild(call.schema.options[i])
  /\ ZodCallOf({"ZodIntersection"}) =>
       /\ Has(out, "allOf") /\ ~Has(out, "anyOf")
       /\ out.allOf = <<ZodChild(call.schema.left), ZodChild(call.schema.right)>>

\* a union of a string and a described number, in that order
C14_Witness ==
  /\ ZodCallOf({"ZodUnion"})
  /\ Len(call.schema.options) = 2
  /\ Has(out, "anyOf")
  /\ out.anyOf = <<[type |-> JStr("string")],
                   [description |-> "doc", type |-> JStr("number")]>>

\* a top-level call on an alternatives description that reaches the type dispatch
JoiAlternativesCall ==
  /\ IsJoiCall /\ CallOpts.maxDepth >= 0
  /\ Has(CallDesc, "type") /\ CallDesc.type = "alternatives"
  /\ ~JoiIsEnum(CallDesc)

\* the conversion of a description nested directly in the call's description
JoiChild(ref) == ConvertJoiDescription(JoiDeref(ref), CallOpts, 1)

\* the matches of the call's description that carry a schema, in match order
CallPlainMatches ==
  IF Has(CallDesc, "matches")
  THEN SelectSeq(CallDesc.matches, LAMBDA m : Has(m, "schema"))
  ELSE <<>>

\* the type result the three cases prescribe for the call's matches
CallAlternativesResult ==
  LET kids == [i \in DOMAIN CallPlainMatches |-> JoiChild(CallPlainMatches[i].schema)]
  IN IF Len(kids) = 0 THEN EmptyNode
     ELSE IF Len(kids) = 1 THEN kids[1]
          ELSE [anyOf |-> kids]

\* C15: for alternatives only the matches that carry a schema are converted;
\* with none the type result is {}, with exactly one it is that schema's
\* conversion itself, and with more than one it is anyOf of the conversions
\* in match order.  The node returned is that type result spread over the
\* collected metadata and then folded for null.
C15_JoiAlternatives ==
  JoiAlternativesCall =>
    out = JoiNullableResult(CallDesc, Spread(CallJoiMeta, CallAlternativesResult))

\* a conditional match followed by a string schema: the node is the string's
\* conversion itself
C15_Witness ==
  /\ JoiAlternativesCall
  /\ Has(CallDesc, "matches")
  /\ Len(CallDesc.matches) = 2 /\ Len(CallPlainMatches) = 1
  /\ ~Has(CallDesc.matches[1], "schema")
  /\ out = [type |-> JStr("string")]

\* the resolver call made and its input
IsResolveCall == call.api = "resolveSchemaInput"
ResolveDefaults ==
  [includeDescriptions |-> TRUE, includeDefaults |-> TRUE, maxDepth |-> DefaultMaxDepth]
ZodShaped(v) ==
  ~IsPrimitive(v) /\ Has(v, "_def") /\ Has(v, "parse") /\ ~IsPrimitive(v.parse)
JoiShaped(v) == ~IsPrimitive(v) /\ Has(v, "describe") /\ ~IsPrimitive(v.describe)

ZodDescribedCall ==
  /\ IsZodCall /\ CallOpts.maxDepth >= 0 /\ CallOpts.includeDescriptions
  /\ Has(call.schema, "description") /\ call.schema.description # ""

\* the tags whose arm returns the conversion of the inner schema alone
ZodPassThroughTags == {"ZodCatch", "ZodBranded", "ZodPipeline", "ZodEffects"}

\* C17: for every type tag, wrapper tags included, if the schema value passed
\* to the converter has a description and includeDescriptions is true, the node
\* returned for that value has description equal to that value's description.
C17_AsStated ==
  ZodDescribedCall =>
    (Has(out, "description") /\ out.description = call.schema.description)

\* a described pass-through wrapper around a string without a description: the
\* node returned is the string's node, with no description
C17_Witness ==
  /\ ZodDescribedCall
  /\ ZodTypeNameOf(call.schema) \in ZodPassThroughTags
  /\ call.schema.description = "wrap"
  /\ out = [type |-> JStr("string")]

\* an object whose optional field has a description of its own: the property
\* is the conversion of the unwrapped schema, without the field's description
C17_FieldWitness ==
  /\ ZodCallOf({"ZodObject"}) /\ CallOpts.includeDescriptions
  /\ Len(CallShape) = 1
  /\ ZodTypeNameOf(CallShape[1].schema) = "ZodOptional"
  /\ Has(CallShape[1].schema, "description") /\ CallShape[1].schema.description = "opt"
  /\ Has(out, "properties")
  /\ out.properties = [a |-> [type |-> JStr("string")]]

\* a top-level Joi call that passes the depth guard
JoiConvertedCall == IsJoiCall /\ CallOpts.maxDepth >= 0

\* C18: for every description converted at depth <= maxDepth, if
\* flags.description is set and includeDescriptions is true the returned node's
\* own description equals flags.description, and if flags.default is defined
\* and includeDefaults is true the returned node's own default equals
\* flags.default.
C18_AsStated ==
  JoiConvertedCall =>
    \A f \in DOMAIN CallJoiMeta : Has(out, f) /\ out[f] = CallJoiMeta[f]

\* described alternatives with one match whose schema has a description of its
\* own: the node carries the match's description
C18_Witness ==
  /\ JoiConvertedCall
  /\ Has(CallDesc, "type") /\ CallDesc.type = "alternatives"
  /\ Has(CallJoiMeta, "description") /\ CallJoiMeta.description = "alt"
  /\ Len(CallPlainMatches) = 1
  /\ Has(out, "description") /\ out.description = "doc"

\* a described description without a scalar type that allows null: the
\* description is inside the first branch of the anyOf, not on the node
C18_RelocatedWitness ==
  /\ JoiNullableCall
  /\ Has(CallJoiMeta, "description")
  /\ DOMAIN out = {"anyOf"}
  /\ Has(out.anyOf[1], "description")
  /\ out.anyOf[1].description = CallJoiMeta.description

\* the checks of the call's schema and, for a field of the node, the positions
\* of the checks that set it
CallChecks == ZodChecksOf(call.schema)
ChecksSetting(field) ==
  {i \in DOMAIN CallChecks :
     LET c == CallChecks[i]
         inclusive == Has(c, "inclusive") /\ c.inclusive
     IN \/ c.kind = "min" /\ field = (IF inclusive THEN "minimum" ELSE "exclusiveMinimum")
        \/ c.kind = "max" /\ field = (IF inclusive THEN "maximum" ELSE "exclusiveMaximum")
        \/ c.kind = "multipleOf" /\ field = "multipleOf"}
ZodNumberFields ==
  {"minimum", "exclusiveMinimum", "maximum", "exclusiveMaximum", "multipleOf"}

\* C19: for a number schema the result type is integer if and only if an 'int'
\* check is present anywhere in the checks list, otherwise number; a min/max
\* check marked inclusive sets minimum/maximum and one not marked inclusive
\* sets exclusiveMinimum/exclusiveMaximum, and a multipleOf check sets
\* multipleOf: each of the five fields is present exactly when some check sets
\* it, with the value of the last check that sets it.
C19_ZodNumber ==
  ZodCallOf({"ZodNumber"}) =>
    /\ Has(out, "type")
    /\ out.type = JStr(IF \E i \in DOMAIN CallChecks : CallChecks[i].kind = "int"
                       THEN "integer" ELSE "number")
    /\ \A f \in ZodNumberFields :
         /\ Has(out, f) <=> ChecksSetting(f) # {}
         /\ Has(out, f) =>
              /\ ChecksSetting(f) # {}
              /\ LET last == CHOOSE i \in ChecksSetting(f) :
                               \A j \in ChecksSetting(f) : j <= i
                 IN out[f] = CallChecks[last].value

\* an exclusive min followed by int: an integer with exclusiveMinimum only
C19_Witness ==
  /\ ZodCallOf({"ZodNumber"})
  /\ Len(CallChecks) = 2 /\ CallChecks[2].kind = "int"
  /\ out = [type |-> JStr("integer"), exclusiveMinimum |-> 0]

\* the fluent calls of SpecBuilder
FluentCalls ==
  {"title", "version", "server", "add", "paths", "tag", "security", "bearerAuth",
   "apiKeyAuth", "component"}
IsFluentCall == call.api \in FluentCalls

\* C20: each fluent call returns a new builder, and the document built from
\* the receiver after the call equals the document built from it before the
\* call.
C20_AsStated ==
  IsFluentCall =>
    /\ out.builder # call.receiver
    /\ Build(builders[call.receiver], ops) = before

\* a server added to a titled and versioned builder: the receiver still
\* builds a document without servers, the returned builder one with a server
C20_Witness ==
  /\ IsFluentCall /\ call.api = "server"
  /\ out.builder # call.receiver
  /\ Has(before, "openapi") /\ ~Has(before, "servers")
  /\ Build(builders[call.receiver], ops) = before
  /\ Has(Build(builders[out.builder], ops), "servers")

\* the nodes nested in the node a Zod container schema converted to, in the
\* order of ZodSubSchemas: the properties in shape order and the catch-all,
\* the items, the tuple slots and the rest, the branches, the value schema
ZodNestedNodes(schema, node) ==
  LET typeName == ZodTypeNameOf(schema)
      shape == IF Has(schema, "shape") THEN schema.shape ELSE <<>>
      Opt(present, f) == IF present /\ Has(node, f) THEN <<node[f]>> ELSE <<>>
  IN
  CASE typeName = "ZodObject" ->
         (IF Has(node, "properties")
          THEN FilterIdx([i \in DOMAIN shape |->
                            IF Has(node.properties, shape[i].key)
                            THEN node.properties[shape[i].key] ELSE EmptyNode],
                         {i \in DOMAIN shape : Has(node.properties, shape[i].key)}, 1)
          ELSE <<>>)
           \o Opt(Has(schema, "catchall")
                    /\ ZodTypeNameOf(ZodDeref(schema.catchall)) # "ZodNever",
                  "additionalProperties")
    [] typeName = "ZodArray" -> Opt(Has(schema, "type"), "items")
    [] typeName = "ZodTuple" ->
         (IF Has(node, "prefixItems") THEN node.prefixItems ELSE <<>>)
           \o Opt(Has(schema, "rest"), "items")
    [] typeName \in {"ZodUnion", "ZodDiscriminatedUnion"} ->
         IF Has(node, "anyOf") THEN node.anyOf ELSE <<>>
    [] typeName = "ZodIntersection" -> IF Has(node, "allOf") THEN node.allOf ELSE <<>>
    [] typeName = "ZodRecord" -> Opt(Has(schema, "valueType"), "additionalProperties")
    [] typeName = "ZodSet" -> Opt(Has(schema, "valueType"), "items")
    [] OTHER -> <<>>

\* a node without its description field
WithoutDescription(node) == [f \in DOMAIN node \ {"description"} |-> node[f]]

\* a node without its default field
WithoutDefault(node) == [f \in DOMAIN node \ {"default"} |-> node[f]]

\* the node of a Zod schema that merges its inner conversion `kid` into itself
ZodMergedNode(schema, opts, kid) ==
  LET typeName == ZodTypeNameOf(schema)
      result == ZodBaseResult(schema, opts)
  IN CASE typeName = "ZodOptional" -> Spread(result, kid)
       [] typeName = "ZodNullable" -> ZodNullableResult(result, kid)
       [] typeName = "ZodDefault" -> ZodDefaultResult(schema, opts, result, kid)
       [] typeName = "ZodReadonly" -> Assign(Spread(result, kid), "readOnly", TRUE)
       [] OTHER -> kid

ZodMergingTags ==
  {"ZodOptional", "ZodNullable", "ZodDefault", "ZodReadonly", "ZodCatch",
   "ZodBranded", "ZodPipeline", "ZodEffects"}

\* the Zod conversion at depth d is assembled from the conversions of the
\* nested schemas at depth d + 1
ZodNestedAtNextDepth(schema, opts, d) ==
  LET node == ConvertZodType(schema, opts, d)
      sub == ZodSubSchemas(schema)
      kid(i) == ConvertZodType(ZodDeref(sub[i]), opts, d + 1)
  IN IF ZodTypeNameOf(schema) \in ZodMergingTags
     THEN node = ZodMergedNode(schema, opts, kid(1))
     ELSE LET nested == ZodNestedNodes(schema, node)
          IN /\ Len(nested) = Len(sub)
             /\ \A i \in DOMAIN sub :
                  \/ nested[i] = kid(i)
                  \/ /\ ZodTypeNameOf(schema) = "ZodObject"
                     /\ ~Has(kid(i), "default")
                     /\ WithoutDefault(nested[i]) = kid(i)

\* the nodes nested in the node a Joi object or array description converted to
JoiNestedNodes(desc, node) ==
  LET type == IF Has(desc, "type") THEN desc.type ELSE ""
      keys == IF Has(desc, "keys") THEN desc.keys ELSE <<>>
      rules == JoiRules(desc)
      patternRules == FilterIdx(rules, {i \in DOMAIN rules : rules[i].name = "pattern"}, 1)
  IN
  CASE type = "object" ->
         (IF Has(node, "properties")
          THEN FilterIdx([i \in DOMAIN keys |->
                            IF Has(node.properties, keys[i].key)
                            THEN node.properties[keys[i].key] ELSE EmptyNode],
                         {i \in DOMAIN keys : Has(node.properties, keys[i].key)}, 1)
          ELSE <<>>)
           \o (IF /\ Len(patternRules) > 0 /\ Has(JoiArgs(patternRules[1]), "value")
                  /\ Has(node, "additionalProperties")
               THEN <<node.additionalProperties>> ELSE <<>>)
    [] type = "array" ->
         IF Has(desc, "ordered") /\ Len(desc.ordered) > 0
         THEN IF Has(node, "prefixItems") THEN node.prefixItems ELSE <<>>
         ELSE IF ~Has(desc, "items") \/ ~Has(node, "items") THEN <<>>
              ELSE IF Len(desc.items) = 1 THEN <<node.items>>
                   ELSE IF Has(node.items, "anyOf") THEN node.items.anyOf ELSE <<>>
    [] OTHER -> <<>>

\* the Joi conversion at depth d is assembled from the conversions of the
\* nested descriptions at depth d + 1
JoiNestedAtNextDepth(desc, opts, d) ==
  LET node == ConvertJoiDescription(desc, opts, d)
      sub == JoiSubSchemas(desc)
      kids == [i \in DOMAIN sub |-> ConvertJoiDescription(JoiDeref(sub[i]), opts, d + 1)]
  IN IF Has(desc, "type") /\ desc.type = "alternatives" /\ ~JoiIsEnum(desc)
     THEN node = JoiNullableResult(desc,
                   Spread(JoiBaseResult(desc, opts),
                          IF Len(kids) = 0 THEN EmptyNode
                          ELSE IF Len(kids) = 1 THEN kids[1] ELSE [anyOf |-> kids]))
     ELSE JoiNestedNodes(desc, node) = kids

\* the depths a converter call on the call's input is examined at
DepthsExamined == {d \in 0..(MaxMaxDepth + 1) : ~DepthExceeded(CallOpts, d)}

\* C21: in both converters every recursive call into a nested sub-schema
\* (object field, array item, tuple slot, rest schema, composition branch,
\* record/set element, catch-all, wrapper inner schema) is made with exactly
\* the caller's depth + 1: the node a call at depth d returns holds, in each
\* nested position, the conversion of the nested schema at depth d + 1 (for a
\* Zod object field, of the unwrapped field schema, plus the wrapper's default).
C21_DepthPlusOne ==
  Called =>
    \A d \in DepthsExamined :
      IF IsZodCall THEN ZodNestedAtNextDepth(call.schema, CallOpts, d)
      ELSE JoiNestedAtNextDepth(CallDesc, CallOpts, d)

\* an object with an optional field converted with maxDepth 0: the field's
\* unwrapped schema is converted at depth 1 and cut off
C21_Witness ==
  /\ ZodCallOf({"ZodObject"}) /\ CallOpts.maxDepth = 0
  /\ Len(CallShape) = 1
  /\ ZodTypeNameOf(CallShape[1].schema) = "ZodOptional"
  /\ out = [type |-> JStr("object"), properties |-> [a |-> EmptyNode]]

\* the indexes of the call's fields that are a ZodDefault with a default value
DefaultFields ==
  {i \in DOMAIN CallShape :
     /\ ZodTypeNameOf(CallShape[i].schema) = "ZodDefault"
     /\ Has(CallShape[i].schema, "defaultValue")}

\* the conversion of the unwrapped schema of the call's i-th field
UnwrappedConversion(i) ==
  ConvertZodType(UnwrapZodOptional(CallShape[i].schema), CallOpts, 1)

\* C22: for a field of a Zod object whose schema is a default-of wrapper, with
\* includeDefaults true the property node carries the wrapper's own default
\* when the conversion of the unwrapped inner schema set no default and keeps
\* the inner conversion's default otherwise; with includeDefaults false the
\* property carries no default.
C22_ZodFieldDefault ==
  ZodCallOf({"ZodObject"}) =>
    \A i \in DefaultFields :
      LET key == CallShape[i].key
          inner == UnwrappedConversion(i)
      IN /\ Has(out, "properties") /\ Has(out.properties, key)
         /\ LET prop == out.properties[key]
            IN IF ~CallOpts.includeDefaults
               THEN ~Has(prop, "default") /\ prop = inner
               ELSE IF Has(inner, "default")
                    THEN prop = inner
                    ELSE /\ Has(prop, "default")
                         /\ prop["default"] = ZodCallDefault(CallShape[i].schema)
                         /\ WithoutDefault(prop) = inner

\* a default-of field around a default-of schema: the inner conversion's
\* default 1 stays and the wrapper's default 2 is not attached
C22_Witness ==
  /\ ZodCallOf({"ZodObject"}) /\ CallOpts.includeDefaults /\ CallOpts.maxDepth >= 2
  /\ 1 \in DefaultFields
  /\ CallShape[1].schema.defaultValue = JNum(2)
  /\ Has(out, "properties") /\ Has(out.properties, "a")
  /\ Has(out.properties.a, "default")
  /\ out.properties.a["default"] = JNum(1)

\* the call's object schema has a catch-all schema other than never
HasCatchall ==
  /\ Has(call.schema, "catchall")
  /\ ZodTypeNameOf(ZodDeref(call.schema.catchall)) # "ZodNever"

CallUnknownKeys == IF Has(call.schema, "unknownKeys") THEN call.schema.unknownKeys ELSE ""

\* C23: for a Zod object, a catch-all schema other than never makes
\* additionalProperties the conversion of that schema, whatever the
\* unknown-keys setting; without one, strict gives additionalProperties false,
\* passthrough gives true, and otherwise additionalProperties is absent.
C23_ZodAdditionalProperties ==
  ZodCallOf({"ZodObject"}) =>
    IF HasCatchall
    THEN /\ Has(out, "additionalProperties")
         /\ out.additionalProperties = ZodChild(call.schema.catchall)
    ELSE IF CallUnknownKeys = "strict"
         THEN Has(out, "additionalProperties") /\ out.additionalProperties = JBool(FALSE)
         ELSE IF CallUnknownKeys = "passthrough"
              THEN Has(out, "additionalProperties") /\ out.additionalProperties = JBool(TRUE)
              ELSE ~Has(out, "additionalProperties")

\* a strict object with a string catch-all: the catch-all's node wins
C23_Witness ==
  /\ ZodCallOf({"ZodObject"}) /\ CallOpts.maxDepth >= 1
  /\ HasCatchall /\ CallUnknownKeys = "strict"
  /\ Has(out, "additionalProperties")
  /\ out.additionalProperties = [type |-> JStr("string")]

\* the call converts a Joi array description through the type dispatch
JoiArrayCall ==
  /\ JoiConvertedCall
  /\ Has(CallDesc, "type") /\ CallDesc.type = "array"
  /\ ~JoiIsEnum(CallDesc)

CallOrdered == IF Has(CallDesc, "ordered") THEN CallDesc.ordered ELSE <<>>
CallItems == IF Has(CallDesc, "items") THEN CallDesc.items ELSE <<>>

\* the array node before the rules: the ordered case, one items entry, several
CallArrayShape ==
  LET r0 == [type |-> JStr("array")]
  IN IF Len(CallOrdered) > 0
     THEN [ type |-> JStr("array"),
            prefixItems |-> [i \in DOMAIN CallOrdered |-> JoiChild(CallOrdered[i])],
            items |-> JBool(FALSE),
            minItems |-> Len(CallOrdered),
            maxItems |-> Len(CallOrdered) ]
     ELSE IF Len(CallItems) = 1 THEN Assign(r0, "items", JoiChild(CallItems[1]))
          ELSE IF Len(CallItems) > 1
               THEN Assign(r0, "items",
                           [anyOf |-> [i \in DOMAIN CallItems |-> JoiChild(CallItems[i])]])
               ELSE r0

\* the array node with the min/max/length/unique rules layered on top
CallArrayLayered == JoiArrayRules(CallArrayShape, JoiRules(CallDesc))

\* C24: a Joi array description with a non-empty ordered list yields
\* prefixItems, items false and minItems = maxItems = ordered.length; otherwise
\* one items entry yields items = its conversion and several yield
\* items = {anyOf}; and the min/max/length/unique rules are layered on top in
\* every one of these cases, ordered arrays included.
C24_AsStated ==
  JoiArrayCall =>
    \A f \in DOMAIN CallArrayLayered \ {"type"} :
      Has(out, f) /\ out[f] = CallArrayLayered[f]

\* an ordered array with a unique rule whose node has the positional fields
\* and no uniqueItems
C24_Witness ==
  /\ JoiArrayCall
  /\ Len(CallOrdered) > 0
  /\ \E i \in DOMAIN JoiRules(CallDesc) : JoiRules(CallDesc)[i].name = "unique"
  /\ Has(out, "prefixItems") /\ Has(out, "minItems")
  /\ out.minItems = Len(CallOrdered)
  /\ ~Has(out, "uniqueItems")

\* what the code does: the rules are layered on the items cases only
C24_RulesOnItemsOnly ==
  JoiArrayCall =>
    LET expected == IF Len(CallOrdered) > 0 THEN CallArrayShape ELSE CallArrayLayered
    IN /\ \A f \in DOMAIN expected \ {"type"} : Has(out, f) /\ out[f] = expected[f]
       /\ \A f \in {"prefixItems", "items", "minItems", "maxItems", "uniqueItems"} :
            Has(out, f) => Has(expected, f)

----------------------------------------------------------------------------
(* Object identity of what a conversion returns.  Object literals, spreads, *)
(* map and filter allocate; `enum: values` and `enum: desc.allow` store the *)
(* array the input holds.  A spread copies the fields of the inner node, so *)
(* an array the inner node holds is held by the outer node as well.         *)

RECURSIVE SumSeq(_)
SumSeq(q) == IF q = <<>> THEN 0 ELSE Head(q) + SumSeq(Tail(q))

\* the number of arrays in the node convertZodType returns that are the very
\* array objects of the schema (its _def.values)
RECURSIVE ZodSharedArrays(_, _, _)
ZodSharedArrays(schema, opts, depth) ==
  IF DepthExceeded(opts, depth) THEN 0
  ELSE LET sub == ZodSubSchemas(schema)
           own == IF ZodTypeNameOf(schema) = "ZodEnum" /\ Has(schema, "values")
                  THEN 1 ELSE 0
       IN own + SumSeq([i \in DOMAIN sub |->
                          ZodSharedArrays(ZodDeref(sub[i]), opts, depth + 1)])

\* the number of arrays in the node convertJoiDescription returns that are the
\* very array objects of the description (its allow list)
RECURSIVE JoiSharedArrays(_, _, _)
JoiSharedArrays(desc, opts, depth) ==
  IF DepthExceeded(opts, depth) THEN 0
  ELSE IF JoiIsEnum(desc)
       THEN IF Includes(desc.allow, JNull) THEN 1 ELSE 0
       ELSE LET sub == JoiSubSchemas(desc)
            IN SumSeq([i \in DOMAIN sub |->
                         JoiSharedArrays(JoiDeref(sub[i]), opts, depth + 1)])

\* the arrays of the call's output that are array objects of the call's input;
\* the description joiToOpenAPI converts is the one schema.describe() returned
\* to it, not an object of the caller
OutShared ==
  IF IsZodCall THEN ZodSharedArrays(call.schema, CallOpts, 0)
  ELSE IF call.api = "joiDescriptionToOpenAPI"
       THEN JoiSharedArrays(CallDesc, CallOpts, 0)
       ELSE 0

\* C25: every node and every array or object inside a node (enum, required,
\* properties, anyOf, prefixItems, type set) returned by a conversion call is
\* newly allocated: no returned structure is the same mutable object as part
\* of the input.
C25_AsStated == Called => OutShared = 0

\* a z.enum converted on its own: the node's enum is the schema's values array
C25_Witness ==
  /\ ZodCallOf({"ZodEnum"})
  /\ Has(out, "enum") /\ out.enum = call.schema.values
  /\ OutShared = 1

\* a Joi description with only and a null in allow: enum is the allow array
C25_JoiWitness ==
  /\ call.api = "joiDescriptionToOpenAPI" /\ JoiEnumCall
  /\ Includes(CallDesc.allow, JNull)
  /\ Has(out, "enum") /\ out.enum = CallDesc.allow
  /\ OutShared = 1

\* what the code does: a native enum and an only-list without null are
\* filtered into a new array
C25_FilteredEnumsFresh ==
  Called =>
    /\ (IsZodCall /\ ZodTypeNameOf(call.schema) = "ZodNativeEnum") => OutShared = 0
    /\ (JoiEnumCall /\ ~Includes(CallDesc.allow, JNull)) => OutShared = 0

----------------------------------------------------------------------------
(* Native enums.  schema.values is Object.values of the enum object.  For a *)
(* numeric TypeScript enum { A, B } the object is { 0:'A', 1:'B', A:0, B:1 }*)
(* and Object.values lists the integer keys first: 'A', 'B', 0, 1.          *)

CallEnumTable == IF Has(call.schema, "values") THEN call.schema.values ELSE <<>>

\* the string and the numeric values of the table, in table order
TableStrings(table) == FilterIdx(table, {i \in DOMAIN table : Has(table[i], "str")}, 1)
TableNumbers(table) == FilterIdx(table, {i \in DOMAIN table : Has(table[i], "num")}, 1)

\* Object.values of a purely numeric enum: n reverse-mapped names, then the
\* n numbers they stand for
IsNumericEnumTable(table) ==
  /\ Len(table) > 0 /\ Len(table) % 2 = 0
  /\ \A i \in 1..(Len(table) \div 2) :
       Has(table[i], "str") /\ Has(table[(Len(table) \div 2) + i], "num")

\* C26: for a Zod native enum the reverse-mapping entries are filtered out:
\* enum is the string member values when at least one member value is a
\* string and the numeric values otherwise, so a purely numeric native enum
\* (whose table holds numbers and reverse-mapped names) yields its numbers.
C26_AsStated ==
  ZodCallOf({"ZodNativeEnum"}) =>
    /\ Has(out, "enum")
    /\ out.enum = IF IsNumericEnumTable(CallEnumTable) THEN TableNumbers(CallEnumTable)
                  ELSE IF Len(TableStrings(CallEnumTable)) > 0
                       THEN TableStrings(CallEnumTable)
                       ELSE TableNumbers(CallEnumTable)

\* the numeric enum { A, B }: the node lists the reverse-mapped names
C26_Witness ==
  /\ ZodCallOf({"ZodNativeEnum"})
  /\ IsNumericEnumTable(CallEnumTable)
  /\ TableNumbers(CallEnumTable) = <<JNum(0), JNum(1)>>
  /\ Has(out, "enum") /\ out.enum = <<JStr("A"), JStr("B")>>

\* what the code does: any string in the table, a reverse-mapped name
\* included, makes enum the strings of the table
C26_StringsOfTheTable ==
  ZodCallOf({"ZodNativeEnum"}) =>
    /\ Has(out, "enum")
    /\ out.enum = IF Len(TableStrings(CallEnumTable)) > 0
                  THEN TableStrings(CallEnumTable)
                  ELSE TableNumbers(CallEnumTable)

----------------------------------------------------------------------------
(* OperationBuilder (src/unnamed/part_006).  builders holds, in creation    *)
(* order, the OperationBuilders the caller has; every parameter method      *)
(* returns a new one.  _clone copies _parameters ([...this._op._parameters])*)
(* so the new builder's list is an array of its own.                        *)

\* new OperationBuilder()
NewOperationBuilder == [_parameters |-> <<>>, _responses |-> <<>>, tags |-> <<>>]

\* _clone(updates)
OperationClone(this, updates) == updates @@ this

\* p.name === param.name && p.in === param.in
SameParameter(p, param) == p.name = param.name /\ p["in"] = param["in"]

\* A variant of _addParam that always pushes
OperationAddParam_push(this, param) ==
  LET builder == OperationClone(this, <<>>)
  IN [builder EXCEPT !._parameters = Append(@, param)]

\* _addParam(param)
OperationAddParam(this, param) ==
  LET builder == OperationClone(this, <<>>)
      found == {i \in DOMAIN builder._parameters : SameParameter(builder._parameters[i], param)}
  IN IF found # {}
     THEN LET existing == CHOOSE i \in found : \A j \in found : i <= j
          IN [builder EXCEPT !._parameters[existing] = param]
     ELSE [builder EXCEPT !._parameters = Append(@, param)]

\* the ParameterObject query, pathParam, header and cookie build
ParameterOf(name, location, required, description, schema) ==
  [name |-> name, required |-> required, schema |-> ResolveSchemaInput(schema)]
    @@ ("in" :> location)
    @@ (IF description # "" THEN [description |-> description] ELSE <<>>)

\* the parameter calls made on one first builder
MaxParamCalls == 3
MoreParamCalls == Len(builders) < 1 + MaxParamCalls

ParameterNames == {"page", "id"}
ParameterSchemas == {[type |-> JStr("integer")], [type |-> JStr("integer"), minimum |-> 1]}

\* a parameter method called on builder n: the new builder is appended
ParamCall(api, n, param) ==
  /\ before' = builders[n]._parameters
  /\ call' = [api |-> api, receiver |-> n, param |-> param]
  /\ builders' = Append(builders, OperationAddParam(builders[n], param))
  /\ out' = [builder |-> Len(builders) + 1]
  /\ UNCHANGED <<post, env, seen, ops>>

OperationQuery ==
  /\ MoreParamCalls
  /\ \E n \in DOMAIN builders, name \in ParameterNames, schema \in ParameterSchemas :
       ParamCall("query", n, ParameterOf(name, "query", FALSE, "", schema))

OperationPathParam ==
  /\ MoreParamCalls
  /\ \E n \in DOMAIN builders, description \in {"", "User ID"} :
       ParamCall("pathParam", n,
                 ParameterOf("id", "path", TRUE, description, [type |-> JStr("string")]))

OperationHeader ==
  /\ MoreParamCalls
  /\ \E n \in DOMAIN builders :
       ParamCall("header", n,
                 ParameterOf("X-Request-Id", "header", FALSE, "", [type |-> JStr("string")]))

OperationCookie ==
  /\ MoreParamCalls
  /\ \E n \in DOMAIN builders :
       ParamCall("cookie", n,
                 ParameterOf("id", "cookie", FALSE, "", [type |-> JStr("string")]))

\* param(param): a raw ParameterObject of the caller
OperationParam ==
  /\ MoreParamCalls
  /\ \E n \in DOMAIN builders, location \in {"query", "path"} :
       ParamCall("param", n, [name |-> "id", schema |-> JStr("Id")] @@ ("in" :> location))

OperationNext ==
  \/ OperationQuery \/ OperationPathParam \/ OperationHeader
  \/ OperationCookie \/ OperationParam

OperationInit ==
  /\ call = NoCall
  /\ post = <<>>
  /\ out = <<>>
  /\ env = 0
  /\ seen = <<>>
  /\ builders = <<NewOperationBuilder>>
  /\ ops = RawOperations
  /\ before = <<>>

SpecOperation == OperationInit /\ [][OperationNext]_vars

ParamCalls == {"query", "pathParam", "header", "cookie", "param"}
IsParamCall == call.api \in ParamCalls

\* the positions of a parameter list that hold the call's (name, in)
Holding(parameters) ==
  {i \in DOMAIN parameters : SameParameter(parameters[i], call.param)}

\* C27: after any sequence of query/pathParam/header/cookie/param calls a
\* builder's parameter list holds at most one parameter per (name, in); a call
\* whose (name, in) is already in the list replaces that entry at its position
\* and keeps the length of the list, a call with a new (name, in) appends; and
\* the receiver's own parameter list is as it was before the call.
C27_ParameterUniqueness ==
  /\ \A b \in DOMAIN builders :
       \A i, j \in DOMAIN builders[b]._parameters :
         SameParameter(builders[b]._parameters[i], builders[b]._parameters[j]) => i = j
  /\ IsParamCall =>
       LET new == builders[out.builder]._parameters
       IN /\ builders[call.receiver]._parameters = before
          /\ IF Holding(before) # {}
             THEN /\ Len(new) = Len(before)
                  /\ \A i \in DOMAIN before :
                       new[i] = IF i \in Holding(before) THEN call.param ELSE before[i]
             ELSE new = Append(before, call.param)

\* query('page', {type:'integer', minimum:1}) on a builder whose list is
\* [page (query) without minimum, another parameter]: the first entry is
\* replaced where it stands
C27_Witness ==
  /\ IsParamCall
  /\ Len(before) = 2
  /\ Holding(before) = {1}
  /\ before[1] # call.param
  /\ Len(builders[out.builder]._parameters) = 2
  /\ builders[out.builder]._parameters[1] = call.param
  /\ builders[out.builder]._parameters[2] = before[2]

----------------------------------------------------------------------------
(* Object nodes of both converters                                          *)

\* the call converts an object schema (Zod) or an object description (Joi)
\* through the object arm
ObjectCall ==
  \/ ZodCallOf({"ZodObject"})
  \/ /\ JoiConvertedCall
     /\ Has(CallDesc, "type") /\ CallDesc.type = "object"
     /\ ~JoiIsEnum(CallDesc)

\* the declared field names, in declaration (Object.entries) order
DeclaredKeys ==
  IF IsZodCall THEN [i \in DOMAIN CallShape |-> CallShape[i].key]
  ELSE [i \in DOMAIN CallKeys |-> CallKeys[i].key]

\* the i-th declared field is one the converter takes for required
DeclaredRequired(i) ==
  IF IsZodCall THEN ~IsZodOptional(CallShape[i].schema)
  ELSE JoiIsRequired(JoiDeref(CallKeys[i].schema))

DeclaredNames == {DeclaredKeys[i] : i \in DOMAIN DeclaredKeys}
KeyPosition(name) == CHOOSE i \in DOMAIN DeclaredKeys : DeclaredKeys[i] = name

\* C28: in every object node of both converters, required (when present) is
\* non-empty, has no duplicates, is a subset of the keys of properties and
\* lists the names in declaration order; required is absent when no field is
\* required and properties is absent when the object declares no field.
C28_ObjectWellFormed ==
  ObjectCall =>
    /\ Has(out, "required") =>
         /\ Len(out.required) > 0
         /\ \A i, j \in DOMAIN out.required :
              i < j => out.required[i] # out.required[j]
         /\ RequiredNames(out) \subseteq PropertyNames(out)
         /\ RequiredNames(out) \subseteq DeclaredNames
         /\ \A i, j \in DOMAIN out.required :
              i < j => KeyPosition(out.required[i]) < KeyPosition(out.required[j])
    /\ (\A i \in DOMAIN DeclaredKeys : ~DeclaredRequired(i)) => ~Has(out, "required")
    /\ Len(DeclaredKeys) = 0 => ~Has(out, "properties")

\* a Zod object declaring b before a, both required: required is [b, a]
C28_Witness ==
  /\ ZodCallOf({"ZodObject"})
  /\ DeclaredKeys = <<"b", "a">>
  /\ Has(out, "required") /\ out.required = <<"b", "a">>
  /\ PropertyNames(out) = {"a", "b"}

\* the same for a Joi description
C28_JoiWitness ==
  /\ ObjectCall /\ IsJoiCall
  /\ DeclaredKeys = <<"b", "a">>
  /\ Has(out, "required") /\ out.required = <<"b", "a">>

----------------------------------------------------------------------------
(* A wrapped field inside an object and on its own                          *)

\* the indexes of the call's fields whose schema is an optional or default-of
\* wrapper
WrappedFields == {i \in DOMAIN CallShape : IsZodOptional(CallShape[i].schema)}

\* zodToOpenAPI called on the schema of the call's i-th field, same options
FieldOnItsOwn(i) == ConvertZodType(ZodDeref(CallShape[i].schema), CallOpts, 0)

\* an object call whose maxDepth is the default, larger than any nesting of
\* the inputs
DeepObjectCall == ZodCallOf({"ZodObject"}) /\ CallOpts.maxDepth = DefaultMaxDepth

C29_DefaultWitness ==
  /\ DeepObjectCall /\ CallOpts.includeDefaults
  /\ 1 \in WrappedFields
  /\ Has(FieldOnItsOwn(1), "default") /\ FieldOnItsOwn(1)["default"] = JNum(2)
  /\ Has(out, "properties") /\ Has(out.properties, CallShape[1].key)
  /\ Has(out.properties[CallShape[1].key], "default")
  /\ out.properties[CallShape[1].key]["default"] = JNum(1)

\* what the code does: the two nodes are equal for a wrapper that has no
\* description to copy and no default that the inner conversion already set
C29_EqualWithoutWrapperMetadata ==
  DeepObjectCall =>
    \A i \in WrappedFields :
      LET field == ZodDeref(CallShape[i].schema)
          described == /\ CallOpts.includeDescriptions
                       /\ Has(field, "description") /\ field.description # ""
          shadowed == /\ CallOpts.includeDefaults
                      /\ Has(field, "defaultValue")
                      /\ Has(UnwrappedConversion(i), "default")
      IN (~described /\ ~shadowed) =>
           /\ Has(out, "properties") /\ Has(out.properties, CallShape[i].key)
           /\ out.properties[CallShape[i].key] = FieldOnItsOwn(i)

----------------------------------------------------------------------------
(* Sequences of add calls on builders with autoOperationId enabled          *)

\* the caller makes add calls only, starting from the builders of
\* SpecBuilderInit (all constructed with the default options)
SpecAdd == SpecBuilderInit /\ [][SpecBuilderAdd]_vars

\* the operationIds the caller's own operations come with
CallerOperationIds ==
  {o.built.operationId : o \in {x \in OperationInputs :
                                  Has(x, "built") /\ Has(x.built, "operationId")}}
    \cup {RawOperations[k].operationId :
            k \in {j \in DOMAIN RawOperations : Has(RawOperations[j], "operationId")}}

\* the operation stored in a slot is one the caller gave an operationId
CallerSetId(slot) ==
  IF Has(slot, "ref") THEN Has(RawOperations[slot.ref], "operationId")
  ELSE Has(slot.val, "operationId") /\ slot.val.operationId \in CallerOperationIds

\* the (path, method) pairs builder b stores an operation under
StoredIn(b) == {s \in {[path |-> p, method |-> m] :
                         p \in DOMAIN builders[b].paths, m \in MethodInputs} :
                  s.method \in DOMAIN builders[b].paths[s.path]}

\* the operationId of the operation builder b stores under (path, method)
StoredId(b, s) ==
  LET op == OperationOf(builders[b].paths[s.path][s.method])
  IN IF Has(op, "operationId") THEN op.operationId ELSE ""

\* C30: with autoOperationId enabled, after any sequence of add calls, every
\* stored operation the caller gave no operationId has operationId =
\* generateOperationId(normalizePath(path), method) for the path and method
\* it is stored under, and the raw OperationObjects the caller passed in are
\* as the caller made them.
C30_AsStated ==
  /\ \A b \in DOMAIN builders :
       \A s \in StoredIn(b) :
         ~CallerSetId(builders[b].paths[s.path][s.method]) =>
           StoredId(b, s) = GenerateOperationId(s.path, s.method)
  /\ ops = RawOperations

\* the same raw object added under get /a and then under post /a: both stored
\* operations are the caller's object, which now carries the id of the first
C30_Witness ==
  \E b \in DOMAIN builders :
    LET get == [path |-> <<"/", "a">>, method |-> <<"g", "e", "t">>]
        post_ == [path |-> <<"/", "a">>, method |-> <<"p", "o", "s", "t">>]
    IN /\ get \in StoredIn(b) /\ post_ \in StoredIn(b)
       /\ builders[b].paths[get.path][get.method] = [ref |-> 1]
       /\ builders[b].paths[post_.path][post_.method] = [ref |-> 1]
       /\ ~Has(RawOperations[1], "operationId")
       /\ Has(ops[1], "operationId")
       /\ StoredId(b, post_) = StoredId(b, get)
       /\ StoredId(b, post_) # GenerateOperationId(post_.path, post_.method)

\* what the code does: an operation built by an OperationBuilder is a fresh
\* object per add call and gets the id of its own path and method; a caller's
\* operationId is never replaced
C30_BuiltOperationsGetTheirId ==
  \A b \in DOMAIN builders :
    \A s \in StoredIn(b) :
      LET slot == builders[b].paths[s.path][s.method]
      IN /\ (Has(slot, "val") /\ ~CallerSetId(slot)) =>
              StoredId(b, s) = GenerateOperationId(s.path, s.method)
         /\ CallerSetId(slot) => StoredId(b, s) \in CallerOperationIds

====
